---- MODULE Spec2Model ----
(***************************************************************************)
(* A model of rizalta/toydb: the paged file (pager/pager.go), the B+tree   *)
(* index over it (index/*.go) and the record log / Store over both         *)
(* (storage/storage.go, storage/iterator.go).                              *)
(*                                                                         *)
(* A pager is a record; the pager's methods are operators that take the    *)
(* pager and return the new pager together with the call's results.  The   *)
(* index operators thread the pager through their reads and writes in the  *)
(* order of the code.  One variable holds each object of the program.      *)
(***************************************************************************)
EXTENDS Integers, Sequences, FiniteSets, TLC

(***************************************************************************)
(* Program constants.                                                      *)
(***************************************************************************)
PageSize == 4096
MaxCacheSize == 128
headerSize == 16
slotSize == 2
valueSize == 8
childSize == 4
\* index.go:16-24: one const block, so iota is 4 at NodeTypeInternal.
NodeTypeInternal == 4
NodeTypeLeaf == 5
RecordTypeInsert == 0
RecordTypeDelete == 1
Upsert == 0
InsertOnly == 1
UpdateOnly == 2
\* The byte-size thresholds of the index (their definitions are not among
\* the sources; the values are the specification's P/2 and P/4).
splitThreshold == 2048
mergeThreshold == 1024

(***************************************************************************)
(* Error kinds.                                                            *)
(***************************************************************************)
Ok == "ok"
ErrPagerClosed == "PagerClosed"
ErrPageOutOfRange == "PageOutOfRange"
ErrIo == "IoError"
ErrPartialIo == "PartialIo"
ErrChecksumMismatch == "ChecksumMismatch"
ErrKeyNotFound == "KeyNotFound"
ErrKeyAlreadyExists == "KeyAlreadyExists"
ErrRecord == "CorruptRecord"

(***************************************************************************)
(* Sequence helpers.                                                       *)
(***************************************************************************)
Max(a, b) == IF a >= b THEN a ELSE b

Min(a, b) == IF a <= b THEN a ELSE b

\* s[lo..hi) with 0-based bounds, as a Go slice expression s[lo:hi].
Slice(s, lo, hi) == SubSeq(s, lo + 1, hi)

InsertAt(s, i, x) == Slice(s, 0, i) \o <<x>> \o Slice(s, i, Len(s))

RemoveAt(s, i) == Slice(s, 0, i) \o Slice(s, i + 1, Len(s))

\* n zero bytes.
Zeros(n) == IF n <= 0 THEN <<>> ELSE <<>> \o [i \in 1..n |-> 0]

RECURSIVE IndexOf(_, _, _)
\* 0-based position of the first x in s at or after position i, or -1.
IndexOf(s, x, i) ==
  IF i >= Len(s) THEN -1
  ELSE IF s[i + 1] = x THEN i
  ELSE IndexOf(s, x, i + 1)

\* Let([x \in {e} |-> b]) is b with x bound to the value of e: the result
\* of a call, bound once and read several times.
Let(f) == f[CHOOSE x \in DOMAIN f : TRUE]

RECURSIVE SumLen(_)
SumLen(lens) == IF lens = <<>> THEN 0 ELSE Head(lens) + SumLen(Tail(lens))

(***************************************************************************)
(* Pages.  A page is 4096 bytes; the model keeps what the program reads    *)
(* from one.  kind "raw": a page whose bytes 0..3 are w0 and 4..7 are w1   *)
(* (little-endian) and whose other bytes are zero: a fresh page, a page on *)
(* the free list (w0 = next free page) or the meta page (w0 = root,        *)
(* w1 = free-list head).  kind "node": a page written by writeNode, with a *)
(* checksum that matches.                                                  *)
(***************************************************************************)
NoNode == [nodeType |-> 0, keys |-> <<>>, values |-> <<>>, children |-> <<>>, next |-> 0]

RawPage(a, b) == [kind |-> "raw", w0 |-> a, w1 |-> b, node |-> NoNode]

ZeroPage == RawPage(0, 0)

NodePage(n) == [kind |-> "node", w0 |-> 0, w1 |-> 0, node |-> n]

\* binary.LittleEndian.Uint32(page.Data[:]): bytes 0..3 of a page.  For a
\* node page these are the node type and the slot count of the header.
Word0(pg) ==
  IF pg.kind = "raw" THEN pg.w0
  ELSE pg.node.nodeType + 65536 * Len(pg.node.keys)

(***************************************************************************)
(* The pager (pager.go:224-234).  file: the pages of the file, page id i   *)
(* at file[i+1]; log: the bytes of a file that is used through             *)
(* WriteAtOffset/ReadAtOffset (the record log; NewStore gives the log and  *)
(* the index a pager each, storage.go:60-73); cache: page id -> entry for  *)
(* the cached ids; lru: the cached ids, most recently used first.          *)
(***************************************************************************)
NewPagerOn(file, log) ==
  [file |-> file, log |-> log,
   numPages |-> (Len(file) * PageSize + Len(log)) \div PageSize,
   freeListID |-> 0,
   cache |-> [i \in {} |-> 0],
   lru |-> <<>>,
   isClosed |-> FALSE]

NewPager == NewPagerOn(<<>>, <<>>)

CachePut(cache, id, entry) ==
  [i \in (DOMAIN cache) \cup {id} |-> IF i = id THEN entry ELSE cache[i]]

CacheDrop(cache, id) == [i \in (DOMAIN cache) \ {id} |-> cache[i]]

MoveToFront(lru, id) == <<id>> \o SelectSeq(lru, LAMBDA x : x # id)

\* n pages of zero bytes: the hole a write past the end of the file leaves.
ZeroPages(n) == IF n <= 0 THEN <<>> ELSE <<>> \o [i \in 1..n |-> ZeroPage]

\* writeToDisk: the page's bytes at offset id * PageSize; a write past the
\* end of the file extends it, the gap reading as zeros.
writeToDisk(file, id, page) ==
  IF id < Len(file) THEN [file EXCEPT ![id + 1] = page]
  ELSE file \o ZeroPages(id - Len(file)) \o <<page>>

\* evict that removes the most recently used page.
evictFront(p) ==
  IF p.lru = <<>> THEN p
  ELSE LET id == p.lru[1] IN
       LET entry == p.cache[id] IN
       [p EXCEPT
             !.file = IF entry.isDirty THEN writeToDisk(p.file, id, entry.page) ELSE @,
             !.lru = Slice(p.lru, 1, Len(p.lru)),
             !.cache = CacheDrop(p.cache, id)]

evict(p) ==
  IF p.lru = <<>> THEN p
  ELSE LET id == p.lru[Len(p.lru)] IN
       LET entry == p.cache[id] IN
       [p EXCEPT
             !.file = IF entry.isDirty THEN writeToDisk(p.file, id, entry.page) ELSE @,
             !.lru = Slice(p.lru, 0, Len(p.lru) - 1),
             !.cache = CacheDrop(p.cache, id)]

EvictIfFull(p) == IF Len(p.lru) > MaxCacheSize THEN evict(p) ELSE p

ReadPage(p, id) ==
  IF p.isClosed THEN [p |-> p, err |-> ErrPagerClosed, page |-> ZeroPage]
  ELSE IF id \in DOMAIN p.cache
    THEN [p |-> [p EXCEPT !.lru = MoveToFront(p.lru, id)], err |-> Ok,
          page |-> p.cache[id].page]
  ELSE IF id >= p.numPages THEN [p |-> p, err |-> ErrPageOutOfRange, page |-> ZeroPage]
  ELSE IF id >= Len(p.file) THEN [p |-> p, err |-> ErrIo, page |-> ZeroPage]
  ELSE LET page == p.file[id + 1] IN
       LET p1 == [p EXCEPT !.cache = CachePut(p.cache, id, [page |-> page, isDirty |-> FALSE]),
                           !.lru = <<id>> \o p.lru] IN
       [p |-> EvictIfFull(p1), err |-> Ok, page |-> page]

WritePage(p, id, page) ==
  IF p.isClosed THEN [p |-> p, err |-> ErrPagerClosed]
  ELSE LET p1 == [p EXCEPT !.cache = CachePut(p.cache, id, [page |-> page, isDirty |-> TRUE]),
                           !.lru = MoveToFront(p.lru, id)] IN
       [p |-> EvictIfFull(p1), err |-> Ok]

\* NewPage without the zeroing of a page taken from the free list.
NewPageStale(p) ==
  IF p.isClosed THEN [p |-> p, err |-> ErrPagerClosed, id |-> 0]
  ELSE IF p.freeListID # 0 THEN
    Let([r \in {ReadPage(p, p.freeListID)} |->
    IF r.err # Ok THEN [p |-> r.p, err |-> r.err, id |-> 0]
    ELSE [p |-> [r.p EXCEPT !.freeListID = Word0(r.page)], err |-> Ok,
          id |-> p.freeListID]])
  ELSE Let([w \in {WritePage(p, p.numPages, ZeroPage)} |->
       [p |-> [w.p EXCEPT !.numPages = @ + 1], err |-> Ok, id |-> p.numPages]])

\* NewPage: the head of the free list is read, its first word becomes the
\* new head and the cached page is zeroed in place (its dirty flag is left
\* as it was); with an empty list the file grows by one cached, dirty page.
NewPage(p) ==
  IF p.isClosed THEN [p |-> p, err |-> ErrPagerClosed, id |-> 0]
  ELSE IF p.freeListID # 0 THEN
    Let([r \in {ReadPage(p, p.freeListID)} |->
    IF r.err # Ok THEN [p |-> r.p, err |-> r.err, id |-> 0]
    ELSE LET id == p.freeListID IN
         LET zeroed == IF id \in DOMAIN r.p.cache
                       THEN [r.p EXCEPT !.cache[id].page = ZeroPage]
                       ELSE r.p IN
         [p |-> [zeroed EXCEPT !.freeListID = Word0(r.page)], err |-> Ok, id |-> id]])
  ELSE Let([w \in {WritePage(p, p.numPages, ZeroPage)} |->
       [p |-> [w.p EXCEPT !.numPages = @ + 1], err |-> Ok, id |-> p.numPages]])

FreePage(p, id) ==
  IF p.isClosed THEN [p |-> p, err |-> ErrPagerClosed]
  ELSE Let([w \in {WritePage(p, id, RawPage(p.freeListID, 0))} |->
       [p |-> [w.p EXCEPT !.freeListID = id], err |-> Ok]])

\* The file after writeToDisk of the cached page of every id of ids (the
\* ids differ, so the order of the writes does not show).
FlushIds(file, cache, ids) ==
  LET end == IF ids = {} THEN 0 ELSE 1 + CHOOSE i \in ids : \A j \in ids : j <= i IN
  <<>> \o [i \in 1..Max(Len(file), end) |->
             IF (i - 1) \in ids THEN cache[i - 1].page
             ELSE IF i <= Len(file) THEN file[i]
             ELSE ZeroPage]

DirtyIds(p) == {i \in DOMAIN p.cache : p.cache[i].isDirty}

Flush(p) ==
  IF p.isClosed THEN [p |-> p, err |-> ErrPagerClosed]
  ELSE [p |-> [p EXCEPT
                 !.file = FlushIds(p.file, p.cache, DirtyIds(p)),
                 !.cache = [i \in DOMAIN p.cache |-> [p.cache[i] EXCEPT !.isDirty = FALSE]]],
        err |-> Ok]

\* Close without the final flush.
CloseWithoutFlush(p) ==
  IF p.isClosed THEN [p |-> p, err |-> Ok]
  ELSE [p |-> [p EXCEPT !.isClosed = TRUE], err |-> Ok]

Close(p) ==
  IF p.isClosed THEN [p |-> p, err |-> Ok]
  ELSE [p |-> [Flush(p).p EXCEPT !.isClosed = TRUE], err |-> Ok]

GetNumPages(p) == IF p.isClosed THEN 0 ELSE p.numPages

GetFreeListID(p) == IF p.isClosed THEN 0 ELSE p.freeListID

SetFreeListID(p, id) == IF p.isClosed THEN p ELSE [p EXCEPT !.freeListID = id]

\* GetSize: the size in bytes of the file.
GetSize(p) ==
  IF p.isClosed THEN [err |-> ErrPagerClosed, size |-> 0]
  ELSE [err |-> Ok, size |-> Len(p.file) * PageSize + Len(p.log)]

\* WriteAtOffset / ReadAtOffset have no isClosed test: on a closed pager
\* the Seek on the closed file fails (an I/O error).  A short read is an
\* error; a read at or past the end of the file reads nothing (EOF).
WriteAtOffset(p, offset, data) ==
  IF p.isClosed THEN [p |-> p, err |-> ErrIo]
  ELSE LET old == p.log \o Zeros(offset + Len(data) - Len(p.log))
           new == Slice(old, 0, offset) \o data
                    \o Slice(old, offset + Len(data), Len(old)) IN
       [p |-> [p EXCEPT !.log = new], err |-> Ok]

ReadAtOffset(p, offset, size) ==
  IF p.isClosed THEN [err |-> ErrIo, data |-> <<>>]
  ELSE IF size = 0 THEN [err |-> Ok, data |-> <<>>]
  ELSE IF offset >= Len(p.log) THEN [err |-> ErrIo, data |-> <<>>]
  ELSE IF offset + size > Len(p.log) THEN [err |-> ErrPartialIo, data |-> <<>>]
  ELSE [err |-> Ok, data |-> Slice(p.log, offset, offset + size)]

(***************************************************************************)
(* Keys.  A key is a byte string; the model writes the string as a prefix  *)
(* pre followed by pad zero bytes, so that long keys stay small values.    *)
(* Compare is bytes.Compare on the strings so written.                     *)
(***************************************************************************)
Key(pre, pad) == [pre |-> pre, pad |-> pad]

\* A nil []byte (no start key, no end key, no promoted key).
NilKey == [pre |-> <<>>, pad |-> 0 - 1]

KeyLen(k) == Len(k.pre) + k.pad

ByteAt(k, i) == IF i <= Len(k.pre) THEN k.pre[i] ELSE 0

CompareLen(a, b) ==
  IF KeyLen(a) < KeyLen(b) THEN 0 - 1 ELSE IF KeyLen(a) > KeyLen(b) THEN 1 ELSE 0

RECURSIVE CompareFrom(_, _, _)
CompareFrom(a, b, i) ==
  IF i > KeyLen(a) \/ i > KeyLen(b) THEN CompareLen(a, b)
  ELSE IF i > Len(a.pre) /\ i > Len(b.pre) THEN CompareLen(a, b)
  ELSE IF ByteAt(a, i) < ByteAt(b, i) THEN 0 - 1
  ELSE IF ByteAt(a, i) > ByteAt(b, i) THEN 1
  ELSE CompareFrom(a, b, i + 1)

Compare(a, b) == CompareFrom(a, b, 1)

BytesEqual(a, b) == Compare(a, b) = 0

RECURSIVE SortSearch(_, _, _, _, _)
\* sort.Search(len(keys), func(j) { return bytes.Compare(keys[j], key) > 0 })
\* when strict, >= 0 otherwise: the binary search of the library, started
\* with i = 0 and j = len(keys).
SortSearch(keys, key, strict, i, j) ==
  IF i >= j THEN i
  ELSE LET h == (i + j) \div 2 IN
       LET c == Compare(keys[h + 1], key) IN
       LET f == IF strict THEN c > 0 ELSE c >= 0 IN
       IF f THEN SortSearch(keys, key, strict, i, h)
          ELSE SortSearch(keys, key, strict, h + 1, j)

SearchGT(keys, key) == SortSearch(keys, key, TRUE, 0, Len(keys))

SearchGE(keys, key) == SortSearch(keys, key, FALSE, 0, Len(keys))

(***************************************************************************)
(* Nodes (index.go:68-99) and their pages (index.go:144-252).              *)
(***************************************************************************)
newLeafNode ==
  [nodeType |-> NodeTypeLeaf, keys |-> <<>>, values |-> <<>>, children |-> <<>>, next |-> 0]

newInternalNode ==
  [nodeType |-> NodeTypeInternal, keys |-> <<>>, values |-> <<>>, children |-> <<>>, next |-> 0]

IsLeaf(n) == n.nodeType = NodeTypeLeaf

\* calculate_size(node) = headerSize + sum of len(keys) + numSlots*slotSize
\* + the size of the pointer section.
calculateSize(n) ==
  headerSize
  + SumLen([i \in 1..Len(n.keys) |-> KeyLen(n.keys[i])])
  + Len(n.keys) * slotSize
  + (IF IsLeaf(n) THEN Len(n.values) * valueSize ELSE Len(n.children) * childSize)

\* readNode: the page is read through the pager and its checksum verified;
\* only a page written by writeNode carries a checksum that matches.
readNode(p, id) ==
  Let([r \in {ReadPage(p, id)} |->
  IF r.err # Ok THEN [p |-> r.p, err |-> r.err, node |-> NoNode]
  ELSE IF r.page.kind # "node" THEN [p |-> r.p, err |-> ErrChecksumMismatch, node |-> NoNode]
  ELSE [p |-> r.p, err |-> Ok, node |-> r.page.node]])

\* writeNode: the slotted page of the node.  The keys grow down from the
\* end of the page and the slots and pointers up from the header; a node
\* larger than a page does not survive the encoding (kind "garbled").
EncodeNode(n) ==
  IF calculateSize(n) <= PageSize THEN NodePage(n)
  ELSE [kind |-> "garbled", w0 |-> 0, w1 |-> 0, node |-> n]

writeNode(p, id, n) == WritePage(p, id, EncodeNode(n))

\* syncMetaPage that writes the free-list head and leaves the root id of
\* the meta page as it was.
syncMetaPageKeepingRoot(p, root) ==
  Let([r \in {ReadPage(p, 0)} |->
  IF r.err # Ok THEN [p |-> r.p, err |-> r.err]
  ELSE WritePage(r.p, 0, RawPage(Word0(r.page), GetFreeListID(r.p)))])

\* syncMetaPage: root id into bytes 0..3 and the pager's free-list head
\* into bytes 4..7 of page 0.
syncMetaPage(p, root) ==
  Let([r \in {ReadPage(p, 0)} |->
  IF r.err # Ok THEN [p |-> r.p, err |-> r.err]
  ELSE WritePage(r.p, 0, RawPage(root, GetFreeListID(r.p)))])

\* binary.LittleEndian.Uint32(meta.Data[4:]): bytes 4..7 of a page.  For a
\* node page these are the free-space pointer and the low half of next.
Word1(pg) ==
  IF pg.kind = "raw" THEN pg.w1
  ELSE ((PageSize + 65536 - (SumLen([i \in 1..Len(pg.node.keys) |-> KeyLen(pg.node.keys[i])]) % 65536)) % 65536)
       + 65536 * (pg.node.next % 65536)

\* NewIndex that takes the root from the meta page and leaves the free-list
\* head of the pager as it is.
NewIndexRootOnly(p) ==
  IF GetNumPages(p) = 0 THEN
    Let([a \in {NewPage(p)} |->
    IF a.err # Ok THEN [p |-> a.p, err |-> a.err, root |-> 0] ELSE
    Let([b \in {NewPage(a.p)} |->
    IF b.err # Ok THEN [p |-> b.p, err |-> b.err, root |-> 0] ELSE
    Let([m \in {syncMetaPage(b.p, b.id)} |->
    IF m.err # Ok THEN [p |-> m.p, err |-> m.err, root |-> 0] ELSE
    Let([w \in {writeNode(m.p, b.id, newLeafNode)} |->
    [p |-> w.p, err |-> w.err, root |-> b.id]])])])])
  ELSE
    Let([r \in {ReadPage(p, 0)} |->
    IF r.err # Ok THEN [p |-> r.p, err |-> r.err, root |-> 0]
    ELSE [p |-> r.p, err |-> Ok, root |-> Word0(r.page)]])

\* NewIndex: a fresh file gets the meta page and an empty leaf root; an
\* existing one gives the root id and the free-list head from its meta page.
NewIndex(p) ==
  IF GetNumPages(p) = 0 THEN
    Let([a \in {NewPage(p)} |->
    IF a.err # Ok THEN [p |-> a.p, err |-> a.err, root |-> 0] ELSE
    Let([b \in {NewPage(a.p)} |->
    IF b.err # Ok THEN [p |-> b.p, err |-> b.err, root |-> 0] ELSE
    Let([m \in {syncMetaPage(b.p, b.id)} |->
    IF m.err # Ok THEN [p |-> m.p, err |-> m.err, root |-> 0] ELSE
    Let([w \in {writeNode(m.p, b.id, newLeafNode)} |->
    [p |-> w.p, err |-> w.err, root |-> b.id]])])])])
  ELSE
    Let([r \in {ReadPage(p, 0)} |->
    IF r.err # Ok THEN [p |-> r.p, err |-> r.err, root |-> 0]
    ELSE [p |-> SetFreeListID(r.p, Word1(r.page)), err |-> Ok, root |-> Word0(r.page)]])

RECURSIVE Descend(_, _, _)
\* The loop of Search: from node n down to the leaf that covers key.
Descend(p, n, key) ==
  IF ~IsLeaf(n) THEN
    LET i == SearchGT(n.keys, key) IN
    Let([r \in {readNode(p, n.children[i + 1])} |->
    IF r.err # Ok THEN r ELSE Descend(r.p, r.node, key)])
  ELSE [p |-> p, err |-> Ok, node |-> n]

Search(p, root, key) ==
  IF root = 0 THEN [p |-> p, err |-> ErrKeyNotFound, value |-> 0] ELSE
  Let([r \in {readNode(p, root)} |->
  IF r.err # Ok THEN [p |-> r.p, err |-> r.err, value |-> 0] ELSE
  Let([d \in {Descend(r.p, r.node, key)} |->
  IF d.err # Ok THEN [p |-> d.p, err |-> d.err, value |-> 0] ELSE
  LET n == d.node IN
  LET i == SearchGE(n.keys, key) IN
  IF i < Len(n.keys) /\ BytesEqual(n.keys[i + 1], key)
     THEN [p |-> d.p, err |-> Ok, value |-> n.values[i + 1]]
     ELSE [p |-> d.p, err |-> ErrKeyNotFound, value |-> 0]])])

(***************************************************************************)
(* Insert (insert.go:256-394).                                             *)
(***************************************************************************)
ErrPanic == "panic"

NoSplit(p, err) == [p |-> p, err |-> err, key |-> NilKey, sibling |-> 0]

\* splitNode that cuts at mid = (len(keys) + 1)/2.
splitNodeAtCeil(p, pageID, n) ==
  Let([a \in {NewPage(p)} |->
  IF a.err # Ok THEN NoSplit(a.p, a.err) ELSE
  LET mid == (Len(n.keys) + 1) \div 2 IN
  LET sib == IF IsLeaf(n)
             THEN [newLeafNode EXCEPT
                     !.keys = Slice(n.keys, mid, Len(n.keys)),
                     !.values = Slice(n.values, mid, Len(n.values)),
                     !.next = n.next]
             ELSE [newInternalNode EXCEPT
                     !.keys = Slice(n.keys, mid + 1, Len(n.keys)),
                     !.children = Slice(n.children, mid + 1, Len(n.children))] IN
  LET left == IF IsLeaf(n)
              THEN [n EXCEPT !.keys = Slice(n.keys, 0, mid),
                             !.values = Slice(n.values, 0, mid),
                             !.next = a.id]
              ELSE [n EXCEPT !.keys = Slice(n.keys, 0, mid),
                             !.children = Slice(n.children, 0, mid + 1)] IN
  LET promotedKey == IF IsLeaf(n) THEN sib.keys[1] ELSE n.keys[mid + 1] IN
  Let([w1 \in {writeNode(a.p, pageID, left)} |->
  IF w1.err # Ok THEN NoSplit(w1.p, w1.err) ELSE
     Let([w2 \in {writeNode(w1.p, a.id, sib)} |->
     IF w2.err # Ok THEN NoSplit(w2.p, w2.err)
     ELSE [p |-> w2.p, err |-> Ok, key |-> promotedKey, sibling |-> a.id]])])])

\* splitNode that leaves the promoted key of an internal node in the right half.
splitNodeKeepingPromoted(p, pageID, n) ==
  Let([a \in {NewPage(p)} |->
  IF a.err # Ok THEN NoSplit(a.p, a.err) ELSE
  LET mid == Len(n.keys) \div 2 IN
  LET sib == IF IsLeaf(n)
             THEN [newLeafNode EXCEPT
                     !.keys = Slice(n.keys, mid, Len(n.keys)),
                     !.values = Slice(n.values, mid, Len(n.values)),
                     !.next = n.next]
             ELSE [newInternalNode EXCEPT
                     !.keys = Slice(n.keys, mid, Len(n.keys)),
                     !.children = Slice(n.children, mid, Len(n.children))] IN
  LET left == IF IsLeaf(n)
              THEN [n EXCEPT !.keys = Slice(n.keys, 0, mid),
                             !.values = Slice(n.values, 0, mid),
                             !.next = a.id]
              ELSE [n EXCEPT !.keys = Slice(n.keys, 0, mid),
                             !.children = Slice(n.children, 0, mid + 1)] IN
  LET promotedKey == IF IsLeaf(n) THEN sib.keys[1] ELSE n.keys[mid + 1] IN
  Let([w1 \in {writeNode(a.p, pageID, left)} |->
  IF w1.err # Ok THEN NoSplit(w1.p, w1.err) ELSE
     Let([w2 \in {writeNode(w1.p, a.id, sib)} |->
     IF w2.err # Ok THEN NoSplit(w2.p, w2.err)
     ELSE [p |-> w2.p, err |-> Ok, key |-> promotedKey, sibling |-> a.id]])])])

\* splitNode: a new page for the right sibling, the node cut at
\* mid = len(keys)/2, both halves written.
splitNode(p, pageID, n) ==
  Let([a \in {NewPage(p)} |->
  IF a.err # Ok THEN NoSplit(a.p, a.err) ELSE
  LET mid == Len(n.keys) \div 2 IN
  LET sib == IF IsLeaf(n)
             THEN [newLeafNode EXCEPT
                     !.keys = Slice(n.keys, mid, Len(n.keys)),
                     !.values = Slice(n.values, mid, Len(n.values)),
                     !.next = n.next]
             ELSE [newInternalNode EXCEPT
                     !.keys = Slice(n.keys, mid + 1, Len(n.keys)),
                     !.children = Slice(n.children, mid + 1, Len(n.children))] IN
  LET left == IF IsLeaf(n)
              THEN [n EXCEPT !.keys = Slice(n.keys, 0, mid),
                             !.values = Slice(n.values, 0, mid),
                             !.next = a.id]
              ELSE [n EXCEPT !.keys = Slice(n.keys, 0, mid),
                             !.children = Slice(n.children, 0, mid + 1)] IN
  LET promotedKey == IF IsLeaf(n) THEN sib.keys[1] ELSE n.keys[mid + 1] IN
  Let([w1 \in {writeNode(a.p, pageID, left)} |->
  IF w1.err # Ok THEN NoSplit(w1.p, w1.err) ELSE
     Let([w2 \in {writeNode(w1.p, a.id, sib)} |->
     IF w2.err # Ok THEN NoSplit(w2.p, w2.err)
     ELSE [p |-> w2.p, err |-> Ok, key |-> promotedKey, sibling |-> a.id]])])])

\* The leaf case of insert without the InsertOnly test.
insertLeafOverwriting(p, pageID, n, key, value, inserMode) ==
  LET i == SearchGE(n.keys, key) IN
  IF i < Len(n.keys) /\ BytesEqual(n.keys[i + 1], key) THEN
    Let([w \in {writeNode(p, pageID, [n EXCEPT !.values[i + 1] = value])} |->
    NoSplit(w.p, w.err)])
  ELSE IF inserMode = UpdateOnly THEN NoSplit(p, ErrKeyNotFound)
  ELSE LET n1 == [n EXCEPT !.keys = InsertAt(n.keys, i, key),
                           !.values = InsertAt(n.values, i, value)] IN
       IF calculateSize(n1) > splitThreshold THEN splitNode(p, pageID, n1)
          ELSE Let([w \in {writeNode(p, pageID, n1)} |-> NoSplit(w.p, w.err)])

\* The leaf case of insert.
insertLeaf(p, pageID, n, key, value, inserMode) ==
  LET i == SearchGE(n.keys, key) IN
  IF i < Len(n.keys) /\ BytesEqual(n.keys[i + 1], key) THEN
    IF inserMode = InsertOnly THEN NoSplit(p, ErrKeyAlreadyExists)
    ELSE Let([w \in {writeNode(p, pageID, [n EXCEPT !.values[i + 1] = value])} |->
         NoSplit(w.p, w.err)])
  ELSE IF inserMode = UpdateOnly THEN NoSplit(p, ErrKeyNotFound)
  ELSE LET n1 == [n EXCEPT !.keys = InsertAt(n.keys, i, key),
                           !.values = InsertAt(n.values, i, value)] IN
       IF calculateSize(n1) > splitThreshold THEN splitNode(p, pageID, n1)
          ELSE Let([w \in {writeNode(p, pageID, n1)} |-> NoSplit(w.p, w.err)])

RECURSIVE insert(_, _, _, _, _)
insert(p, pageID, key, value, inserMode) ==
  Let([r \in {readNode(p, pageID)} |->
  IF r.err # Ok THEN NoSplit(r.p, r.err) ELSE
  LET n == r.node IN
  IF IsLeaf(n) THEN insertLeaf(r.p, pageID, n, key, value, inserMode) ELSE
  LET i == SearchGT(n.keys, key) IN
  Let([c \in {insert(r.p, n.children[i + 1], key, value, inserMode)} |->
  IF c.err # Ok THEN NoSplit(c.p, c.err)
     ELSE IF c.sibling # 0 THEN
       LET n1 == [n EXCEPT !.keys = InsertAt(n.keys, i, c.key),
                           !.children = InsertAt(n.children, i + 1, c.sibling)] IN
       IF calculateSize(n1) > splitThreshold THEN splitNode(c.p, pageID, n1)
          ELSE Let([w \in {writeNode(c.p, pageID, n1)} |-> NoSplit(w.p, w.err)])
     ELSE NoSplit(c.p, Ok)])])

\* Insert: a split of the root makes a new internal root and syncs meta.
Insert(p, root, key, value, inserMode) ==
  Let([c \in {insert(p, root, key, value, inserMode)} |->
  IF c.err # Ok THEN [p |-> c.p, root |-> root, err |-> c.err]
  ELSE IF c.sibling # 0 THEN
    Let([a \in {NewPage(c.p)} |->
    IF a.err # Ok THEN [p |-> a.p, root |-> root, err |-> a.err] ELSE
    LET newRoot == [newInternalNode EXCEPT !.keys = <<c.key>>,
                                           !.children = <<root, c.sibling>>] IN
    Let([w \in {writeNode(a.p, a.id, newRoot)} |->
    IF w.err # Ok THEN [p |-> w.p, root |-> root, err |-> w.err] ELSE
       Let([m \in {syncMetaPage(w.p, a.id)} |->
       [p |-> m.p, root |-> a.id, err |-> m.err]])])])
  ELSE [p |-> c.p, root |-> root, err |-> Ok]])

(***************************************************************************)
(* Delete (delete.go:10-227).                                              *)
(***************************************************************************)
\* borrowLeft / borrowRight / merge work on the decoded nodes; sepKeyIdx
\* is the 0-based index of the separator in the parent.
\* borrowLeft that leaves the separator of the parent as it was.
borrowLeftKeepingSeparator(parent, left, child, sepKeyIdx) ==
  LET leftIdx == Len(left.keys) - 1 IN
  IF IsLeaf(child) THEN
    [parent |-> parent,
     sibling |-> [left EXCEPT !.keys = Slice(left.keys, 0, leftIdx),
                              !.values = Slice(left.values, 0, leftIdx)],
     child |-> [child EXCEPT !.keys = <<left.keys[leftIdx + 1]>> \o child.keys,
                             !.values = <<left.values[leftIdx + 1]>> \o child.values]]
  ELSE
    [parent |-> parent,
     sibling |-> [left EXCEPT !.keys = Slice(left.keys, 0, leftIdx),
                              !.children = Slice(left.children, 0, leftIdx + 1)],
     child |-> [child EXCEPT !.keys = <<parent.keys[sepKeyIdx + 1]>> \o child.keys,
                             !.children = <<left.children[leftIdx + 2]>> \o child.children]]

borrowLeft(parent, left, child, sepKeyIdx) ==
  LET leftIdx == Len(left.keys) - 1 IN
  IF IsLeaf(child) THEN
    LET child1 == [child EXCEPT !.keys = <<left.keys[leftIdx + 1]>> \o child.keys,
                                !.values = <<left.values[leftIdx + 1]>> \o child.values] IN
    [parent |-> [parent EXCEPT !.keys[sepKeyIdx + 1] = child1.keys[1]],
        sibling |-> [left EXCEPT !.keys = Slice(left.keys, 0, leftIdx),
                                 !.values = Slice(left.values, 0, leftIdx)],
        child |-> child1]
  ELSE
    [parent |-> [parent EXCEPT !.keys[sepKeyIdx + 1] = left.keys[leftIdx + 1]],
     sibling |-> [left EXCEPT !.keys = Slice(left.keys, 0, leftIdx),
                              !.children = Slice(left.children, 0, leftIdx + 1)],
     child |-> [child EXCEPT !.keys = <<parent.keys[sepKeyIdx + 1]>> \o child.keys,
                             !.children = <<left.children[leftIdx + 2]>> \o child.children]]

borrowRight(parent, right, child, sepKeyIdx) ==
  IF IsLeaf(child) THEN
    LET right1 == [right EXCEPT !.keys = Tail(right.keys), !.values = Tail(right.values)] IN
    [parent |-> [parent EXCEPT !.keys[sepKeyIdx + 1] = right1.keys[1]],
        sibling |-> right1,
        child |-> [child EXCEPT !.keys = Append(child.keys, right.keys[1]),
                                !.values = Append(child.values, right.values[1])]]
  ELSE
    [parent |-> [parent EXCEPT !.keys[sepKeyIdx + 1] = right.keys[1]],
     sibling |-> [right EXCEPT !.keys = Tail(right.keys), !.children = Tail(right.children)],
     child |-> [child EXCEPT !.keys = Append(child.keys, parent.keys[sepKeyIdx + 1]),
                             !.children = Append(child.children, right.children[1])]]

\* merge with the separator of the parent dropped instead of descending
\* into the merged internal node.
mergeWithoutSeparator(parent, left, right, sepKeyIdx) ==
  [parent |-> [parent EXCEPT !.keys = RemoveAt(parent.keys, sepKeyIdx),
                             !.children = RemoveAt(parent.children, sepKeyIdx + 1)],
   left |-> IF IsLeaf(left)
            THEN [left EXCEPT !.keys = left.keys \o right.keys,
                              !.values = left.values \o right.values,
                              !.next = right.next]
            ELSE [left EXCEPT !.keys = left.keys \o right.keys,
                              !.children = left.children \o right.children]]

\* merge that leaves next of the merged leaf as it was.
mergeKeepingNext(parent, left, right, sepKeyIdx) ==
  [parent |-> [parent EXCEPT !.keys = RemoveAt(parent.keys, sepKeyIdx),
                             !.children = RemoveAt(parent.children, sepKeyIdx + 1)],
   left |-> IF IsLeaf(left)
            THEN [left EXCEPT !.keys = left.keys \o right.keys,
                              !.values = left.values \o right.values]
            ELSE [left EXCEPT !.keys = Append(left.keys, parent.keys[sepKeyIdx + 1]) \o right.keys,
                              !.children = left.children \o right.children]]

merge(parent, left, right, sepKeyIdx) ==
  [parent |-> [parent EXCEPT !.keys = RemoveAt(parent.keys, sepKeyIdx),
                             !.children = RemoveAt(parent.children, sepKeyIdx + 1)],
   left |-> IF IsLeaf(left)
            THEN [left EXCEPT !.keys = left.keys \o right.keys,
                              !.values = left.values \o right.values,
                              !.next = right.next]
            ELSE [left EXCEPT !.keys = Append(left.keys, parent.keys[sepKeyIdx + 1]) \o right.keys,
                              !.children = left.children \o right.children]]

PE(p, err) == [p |-> p, err |-> err]

\* Three writeNode calls in the order of the code, stopping at an error.
Write3(p, id1, n1, id2, n2, id3, n3) ==
  Let([a \in {writeNode(p, id1, n1)} |->
  IF a.err # Ok THEN a ELSE
  Let([b \in {writeNode(a.p, id2, n2)} |->
  IF b.err # Ok THEN b ELSE writeNode(b.p, id3, n3)])])

\* fixUnderflow: borrow from the left, else from the right, else merge.
\* root is Index.root, which syncMetaPage writes.
fixUnderflow(p, root, parentID, childID) ==
  Let([rp \in {readNode(p, parentID)} |->
  IF rp.err # Ok THEN PE(rp.p, rp.err) ELSE
  Let([rc \in {readNode(rp.p, childID)} |->
  IF rc.err # Ok THEN PE(rc.p, rc.err) ELSE
  LET parentNode == rp.node IN
  LET childNode == rc.node IN
  LET childIdx == IndexOf(parentNode.children, childID, 0) IN
  IF childIdx = 0 - 1 THEN PE(rc.p, ErrKeyNotFound) ELSE
  LET hasLeft == childIdx > 0 IN
  LET leftID == parentNode.children[childIdx] IN
  Let([rl \in {IF hasLeft THEN readNode(rc.p, leftID) ELSE [p |-> rc.p, err |-> Ok, node |-> NoNode]} |->
  IF rl.err # Ok THEN PE(rl.p, rl.err) ELSE
  IF hasLeft /\ calculateSize(rl.node) > mergeThreshold THEN
    LET b == borrowLeft(parentNode, rl.node, childNode, childIdx - 1) IN
    Write3(rl.p, leftID, b.sibling, parentID, b.parent, childID, b.child)
  ELSE
  LET hasRight == childIdx < Len(parentNode.children) - 1 IN
  LET rightID == parentNode.children[childIdx + 2] IN
  Let([rr \in {IF hasRight THEN readNode(rl.p, rightID) ELSE [p |-> rl.p, err |-> Ok, node |-> NoNode]} |->
  IF rr.err # Ok THEN PE(rr.p, rr.err) ELSE
  IF hasRight /\ calculateSize(rr.node) > mergeThreshold THEN
    IF IsLeaf(childNode) /\ Len(rr.node.keys) < 2 THEN PE(rr.p, ErrPanic) ELSE
    LET b == borrowRight(parentNode, rr.node, childNode, childIdx) IN
    Write3(rr.p, rightID, b.sibling, parentID, b.parent, childID, b.child)
  ELSE
  IF hasLeft THEN
    Let([rl2 \in {readNode(rr.p, leftID)} |->
    IF rl2.err # Ok THEN PE(rl2.p, rl2.err) ELSE
    Let([s \in {syncMetaPage(rl2.p, root)} |->
    IF s.err # Ok THEN s ELSE
    LET m == merge(parentNode, rl2.node, childNode, childIdx - 1) IN
    Let([f \in {FreePage(s.p, childID)} |->
    IF f.err # Ok THEN f ELSE
       Let([w \in {writeNode(f.p, leftID, m.left)} |->
       IF w.err # Ok THEN w ELSE writeNode(w.p, parentID, m.parent)])])])])
  ELSE
    IF childIdx + 1 >= Len(parentNode.children) THEN PE(rr.p, ErrPanic) ELSE
    Let([rr2 \in {readNode(rr.p, rightID)} |->
    IF rr2.err # Ok THEN PE(rr2.p, rr2.err) ELSE
    LET m == merge(parentNode, childNode, rr2.node, childIdx) IN
    Let([f \in {FreePage(rr2.p, rightID)} |->
    IF f.err # Ok THEN f ELSE
       Let([s \in {syncMetaPage(f.p, root)} |->
       IF s.err # Ok THEN s ELSE
       Let([w \in {writeNode(s.p, parentID, m.parent)} |->
       IF w.err # Ok THEN w ELSE writeNode(w.p, childID, m.left)])])])])])])])])

RECURSIVE delete(_, _, _, _, _)
\* delete.go:37-79.  root is Index.root, which syncMetaPage reads.
delete(p, root, parentID, pageID, key) ==
  Let([r \in {readNode(p, pageID)} |->
  IF r.err # Ok THEN PE(r.p, r.err) ELSE
  LET n == r.node IN
  IF IsLeaf(n) THEN
    LET i == SearchGE(n.keys, key) IN
    IF i < Len(n.keys) /\ BytesEqual(key, n.keys[i + 1]) THEN
      LET n1 == [n EXCEPT !.keys = RemoveAt(n.keys, i), !.values = RemoveAt(n.values, i)] IN
      Let([w \in {writeNode(r.p, pageID, n1)} |->
      IF w.err # Ok THEN w
         ELSE IF parentID # 0 /\ calculateSize(n1) < mergeThreshold
           THEN fixUnderflow(w.p, root, parentID, pageID)
         ELSE PE(w.p, Ok)])
    ELSE PE(r.p, ErrKeyNotFound)
  ELSE
    LET i == SearchGT(n.keys, key) IN
    LET childID == n.children[i + 1] IN
    Let([d \in {delete(r.p, root, pageID, childID, key)} |->
    IF d.err # Ok THEN d ELSE
       Let([c \in {readNode(d.p, childID)} |->
       IF c.err # Ok THEN PE(c.p, c.err)
       ELSE IF calculateSize(c.node) < mergeThreshold
         THEN fixUnderflow(c.p, root, pageID, childID)
       ELSE PE(c.p, Ok)])])])

\* Delete that reports a key it did not find as deleted.
DeleteIdempotent(p, root, key) ==
  IF root = 0 THEN [p |-> p, root |-> root, err |-> Ok] ELSE
  Let([d \in {delete(p, root, 0, root, key)} |->
  IF d.err = ErrKeyNotFound THEN [p |-> d.p, root |-> root, err |-> Ok] ELSE
  IF d.err # Ok THEN [p |-> d.p, root |-> root, err |-> d.err] ELSE
  Let([r \in {readNode(d.p, root)} |->
  IF r.err # Ok THEN [p |-> r.p, root |-> root, err |-> r.err]
  ELSE IF ~IsLeaf(r.node) /\ Len(r.node.keys) = 0 THEN
    LET newRoot == IF Len(r.node.children) > 0 THEN r.node.children[1] ELSE 0 IN
    Let([m \in {syncMetaPage(r.p, newRoot)} |->
    [p |-> m.p, root |-> newRoot, err |-> m.err]])
  ELSE [p |-> r.p, root |-> root, err |-> Ok]])])

\* Delete: after the recursive delete a root that is an internal node
\* without keys is replaced by its only child, and meta is synced.
Delete(p, root, key) ==
  IF root = 0 THEN [p |-> p, root |-> root, err |-> ErrKeyNotFound] ELSE
  Let([d \in {delete(p, root, 0, root, key)} |->
  IF d.err # Ok THEN [p |-> d.p, root |-> root, err |-> d.err] ELSE
  Let([r \in {readNode(d.p, root)} |->
  IF r.err # Ok THEN [p |-> r.p, root |-> root, err |-> r.err]
  ELSE IF ~IsLeaf(r.node) /\ Len(r.node.keys) = 0 THEN
    LET newRoot == IF Len(r.node.children) > 0 THEN r.node.children[1] ELSE 0 IN
    Let([m \in {syncMetaPage(r.p, newRoot)} |->
    [p |-> m.p, root |-> newRoot, err |-> m.err]])
  ELSE [p |-> r.p, root |-> root, err |-> Ok]])])

(***************************************************************************)
(* Cursor (cursor.go:71-159).                                              *)
(***************************************************************************)
NoCursor == [pageID |-> 0, endKey |-> NilKey, keyNum |-> 0, isEnd |-> TRUE]

RECURSIVE DescendFirst(_, _, _)
\* cursor.go:92-98: the leftmost leaf.
DescendFirst(p, pageID, n) ==
  IF IsLeaf(n) THEN [p |-> p, err |-> Ok, node |-> n, pageID |-> pageID] ELSE
  Let([r \in {readNode(p, n.children[1])} |->
  IF r.err # Ok THEN [p |-> r.p, err |-> r.err, node |-> NoNode, pageID |-> 0]
  ELSE DescendFirst(r.p, n.children[1], r.node)])

RECURSIVE DescendTo(_, _, _, _)
\* cursor.go:100-109: the leaf that startKey belongs to.
DescendTo(p, pageID, n, startKey) ==
  IF IsLeaf(n) THEN [p |-> p, err |-> Ok, node |-> n, pageID |-> pageID] ELSE
  LET i == SearchGT(n.keys, startKey) IN
  Let([r \in {readNode(p, n.children[i + 1])} |->
  IF r.err # Ok THEN [p |-> r.p, err |-> r.err, node |-> NoNode, pageID |-> 0]
     ELSE DescendTo(r.p, n.children[i + 1], r.node, startKey)])

\* NewCursor without the search for startKey in its leaf.
NewCursorFromLeafStart(p, root, startKey, endKey) ==
  IF root = 0 THEN [p |-> p, err |-> Ok, c |-> NoCursor] ELSE
  Let([r \in {readNode(p, root)} |->
  IF r.err # Ok THEN [p |-> r.p, err |-> r.err, c |-> NoCursor] ELSE
  Let([d \in {IF startKey = NilKey THEN DescendFirst(r.p, root, r.node)
           ELSE DescendTo(r.p, root, r.node, startKey)} |->
  IF d.err # Ok THEN [p |-> d.p, err |-> d.err, c |-> NoCursor]
     ELSE [p |-> d.p, err |-> Ok,
           c |-> [pageID |-> d.pageID, endKey |-> endKey, keyNum |-> 0,
                  isEnd |-> d.pageID = 0]]])])

NewCursor(p, root, startKey, endKey) ==
  IF root = 0 THEN [p |-> p, err |-> Ok, c |-> NoCursor] ELSE
  Let([r \in {readNode(p, root)} |->
  IF r.err # Ok THEN [p |-> r.p, err |-> r.err, c |-> NoCursor] ELSE
  IF startKey = NilKey THEN
    Let([d \in {DescendFirst(r.p, root, r.node)} |->
    IF d.err # Ok THEN [p |-> d.p, err |-> d.err, c |-> NoCursor]
    ELSE [p |-> d.p, err |-> Ok,
          c |-> [pageID |-> d.pageID, endKey |-> endKey, keyNum |-> 0,
                 isEnd |-> d.pageID = 0]]])
  ELSE
    Let([d \in {DescendTo(r.p, root, r.node, startKey)} |->
    IF d.err # Ok THEN [p |-> d.p, err |-> d.err, c |-> NoCursor] ELSE
    LET k == SearchGE(d.node.keys, startKey) IN
    LET past == k >= Len(d.node.keys) IN
    LET pageID == IF past THEN d.node.next ELSE d.pageID IN
    [p |-> d.p, err |-> Ok,
        c |-> [pageID |-> pageID, endKey |-> endKey,
               keyNum |-> IF past THEN 0 ELSE k, isEnd |-> pageID = 0]]])])

RECURSIVE CursorNext(_, _)
\* Cursor.Next: key = NilKey is the nil key of the end of the scan.
CursorNext(p, c) ==
  IF c.isEnd THEN [p |-> p, c |-> c, err |-> Ok, key |-> NilKey, value |-> 0] ELSE
  Let([r \in {readNode(p, c.pageID)} |->
  IF r.err # Ok THEN [p |-> r.p, c |-> c, err |-> r.err, key |-> NilKey, value |-> 0] ELSE
  LET n == r.node IN
  IF c.keyNum < Len(n.keys) THEN
    LET key == n.keys[c.keyNum + 1] IN
    IF c.endKey # NilKey /\ Compare(key, c.endKey) >= 0
    THEN [p |-> r.p, c |-> [c EXCEPT !.isEnd = TRUE], err |-> Ok,
          key |-> NilKey, value |-> 0]
    ELSE [p |-> r.p, c |-> [c EXCEPT !.keyNum = c.keyNum + 1], err |-> Ok,
          key |-> key, value |-> n.values[c.keyNum + 1]]
  ELSE
    IF n.next = 0
    THEN [p |-> r.p, c |-> [c EXCEPT !.pageID = 0, !.keyNum = 0, !.isEnd = TRUE],
          err |-> Ok, key |-> NilKey, value |-> 0]
    ELSE CursorNext(r.p, [c EXCEPT !.pageID = n.next, !.keyNum = 0])])

(***************************************************************************)
(* Bytes and 32/64-bit words.  A 64-bit word is its 8 bytes, least         *)
(* significant first; a 32-bit word is a pair of 16-bit halves.            *)
(***************************************************************************)
RECURSIVE Xor(_, _)
\* a ^ b on naturals.
Xor(a, b) ==
  IF a = 0 THEN b ELSE IF b = 0 THEN a
  ELSE ((a + b) % 2) + 2 * Xor(a \div 2, b \div 2)

\* binary.LittleEndian.PutUint32 for n < 2^31.
PutUint32(n) ==
  <<n % 256, (n \div 256) % 256, (n \div 65536) % 256, (n \div 16777216) % 256>>

\* binary.LittleEndian.Uint32 as [lo, hi]: the value is lo + 65536 * hi.
Uint32(b) == [lo |-> b[1] + 256 * b[2], hi |-> b[3] + 256 * b[4]]

\* a + b in uint32.
Add32(a, b) ==
  LET lo == a.lo + b.lo IN
  LET hi == a.hi + b.hi + lo \div 65536 IN
  [lo |-> lo % 65536, hi |-> hi % 65536]

\* The offset basis and the prime of 64-bit FNV-1a (hash/fnv).
fnvOffset64 == <<37, 35, 34, 132, 228, 156, 242, 203>>

RECURSIVE MulLow(_, _, _)
\* h * 0x1b3 mod 2^64, byte by byte from byte i with the carry c.
MulLow(h, i, c) ==
  IF i > 8 THEN <<>>
  ELSE LET t == h[i] * 435 + c IN
       <<t % 256>> \o MulLow(h, i + 1, t \div 256)

RECURSIVE AddBytes(_, _, _, _)
\* a + b mod 2^64.
AddBytes(a, b, i, c) ==
  IF i > 8 THEN <<>>
  ELSE LET t == a[i] + b[i] + c IN
       <<t % 256>> \o AddBytes(a, b, i + 1, t \div 256)

\* h * 0x100000001b3 mod 2^64: the prime is 2^40 + 0x1b3.
MulPrime(h) ==
  LET shifted == [i \in 1..8 |-> IF i > 5 THEN h[i - 5] ELSE 0] IN
  AddBytes(MulLow(h, 1, 0), shifted, 1, 0)

RECURSIVE fnv64a(_, _, _)
\* hash.Write: for each byte, h ^= byte; h *= prime.
fnv64a(h, bytes, i) ==
  IF i > Len(bytes) THEN h
  ELSE fnv64a(MulPrime([h EXCEPT ![1] = Xor(h[1], bytes[i])]), bytes, i + 1)

\* The 64-bit FNV-1a hash of the key, written as the 8-byte big-endian
\* index key (whose byte order is the order of the numbers).
Sum64(key) ==
  LET h == fnv64a(fnvOffset64, key, 1) IN
  Key([i \in 1..8 |-> h[9 - i]], 0)

\* The keys of the store specification.
KeyA == <<97>>

\* Two keys with the same 64-bit FNV-1a hash.
KeyC1 == <<150, 250, 169, 94, 17, 198, 107, 66>>

KeyC2 == <<49, 66, 103, 139, 151, 152, 214, 55>>

StoreKeys == {KeyA, KeyC1, KeyC2}

\* The hashes of the keys of the store specification, computed once.
StoreKeyHashes == [k \in StoreKeys |-> Sum64(k)]

\* hashKey: fnv.New64a, Write(key), Sum64.
hashKey(key) == IF key \in StoreKeys THEN StoreKeyHashes[key] ELSE Sum64(key)

(***************************************************************************)
(* Records (storage.go:43-47, 130-178, 264-284).  A value is a byte        *)
(* string; the nil value is the empty string.                              *)
(***************************************************************************)
Record(t, key, value) == [RecordType |-> t, Key |-> key, Value |-> value]

NoRecord == Record(0, <<>>, <<>>)

serialize(r) ==
  <<r.RecordType>> \o PutUint32(Len(r.Key)) \o PutUint32(Len(r.Value)) \o r.Key \o r.Value

\* deserialize: the value is kept for an insert record only.
deserialize(data) ==
  IF Len(data) < 9 THEN [err |-> ErrRecord, r |-> NoRecord] ELSE
  LET keyLen == Uint32(Slice(data, 1, 5)) IN
  LET valuelen == Uint32(Slice(data, 5, 9)) IN
  LET total == Add32([lo |-> 9, hi |-> 0], Add32(keyLen, valuelen)) IN
  LET keyEnd == Add32([lo |-> 9, hi |-> 0], keyLen) IN
  IF total.hi > 0 \/ Len(data) < total.lo THEN [err |-> ErrRecord, r |-> NoRecord]
     ELSE IF keyEnd.hi > 0 \/ keyEnd.lo > Len(data) \/ keyEnd.lo < 9
       THEN [err |-> ErrPanic, r |-> NoRecord]
     ELSE [err |-> Ok,
           r |-> Record(data[1], Slice(data, 9, keyEnd.lo),
                        IF data[1] = RecordTypeInsert
                        THEN Slice(data, keyEnd.lo, total.lo) ELSE <<>>)]

\* readRecord: the 9-byte header, then keyLen + valuelen bytes.
readRecord(pager, offset) ==
  Let([h \in {ReadAtOffset(pager, offset, 9)} |->
  IF h.err # Ok THEN [err |-> h.err, r |-> NoRecord] ELSE
  LET remaining == Add32(Uint32(Slice(h.data, 1, 5)), Uint32(Slice(h.data, 5, 9))) IN
  \* A size of 2^16 or more is past the end of every log of the model.
  LET size == IF remaining.hi > 0 THEN 65536 ELSE remaining.lo IN
  Let([rest \in {ReadAtOffset(pager, offset + 9, size)} |->
  IF rest.err # Ok THEN [err |-> rest.err, r |-> NoRecord]
  ELSE deserialize(h.data \o rest.data)])])

(***************************************************************************)
(* The Store (storage.go:29-34, 55-128, 186-359).  A store is              *)
(* [pager, index, offset]: the log's pager, the index (its pager and root) *)
(* and the append offset.                                                  *)
(***************************************************************************)
NoStore == [pager |-> Close(NewPager).p, index |-> [pager |-> Close(NewPager).p, root |-> 0],
            offset |-> 0]

RECURSIVE ScanLog(_, _)
\* storage.go:89-97: the end of the last record that parses.
ScanLog(pager, offset) ==
  Let([r \in {readRecord(pager, offset)} |->
  IF r.err # Ok THEN offset
  ELSE ScanLog(pager, offset + Len(serialize(r.r)))])

RECURSIVE recoverFrom(_, _)
\* recoverIndex: every record that parses is upserted at its offset.
recoverFrom(s, offset) ==
  Let([r \in {readRecord(s.pager, offset)} |->
  IF r.err # Ok THEN [s |-> [s EXCEPT !.offset = offset], err |-> Ok] ELSE
  Let([i \in {Insert(s.index.pager, s.index.root, hashKey(r.r.Key), offset, Upsert)} |->
  LET s1 == [s EXCEPT !.index = [pager |-> i.p, root |-> i.root]] IN
  IF i.err # Ok THEN [s |-> s1, err |-> i.err]
     ELSE recoverFrom(s1, offset + Len(serialize(r.r)))])])

recoverIndex(s) == recoverFrom(s, 0)

\* NewStore that replays the log into the index also when clean.lock exists.
NewStoreAlwaysRecovering(dataFile, indexFile, lockFile) ==
  Let([dataPager \in {NewPagerOn(<<>>, dataFile)} |->
  Let([indexPager \in {NewPagerOn(indexFile, <<>>)} |->
  Let([index \in {NewIndex(indexPager)} |->
  IF index.err # Ok
  THEN [s |-> [pager |-> Close(dataPager).p,
               index |-> [pager |-> Close(index.p).p, root |-> 0], offset |-> 0],
        err |-> index.err, lockFile |-> lockFile]
  ELSE
  LET s == [pager |-> dataPager, index |-> [pager |-> index.p, root |-> index.root],
            offset |-> 0] IN
  Let([r \in {recoverIndex(s)} |-> [s |-> r.s, err |-> r.err, lockFile |-> FALSE]])])])])

\* NewStore that trusts the index when clean.lock exists and leaves the
\* file where it is.
NewStoreKeepingLock(dataFile, indexFile, lockFile) ==
  Let([dataPager \in {NewPagerOn(<<>>, dataFile)} |->
  Let([indexPager \in {NewPagerOn(indexFile, <<>>)} |->
  Let([index \in {NewIndex(indexPager)} |->
  IF index.err # Ok
  THEN [s |-> [pager |-> Close(dataPager).p,
               index |-> [pager |-> Close(index.p).p, root |-> 0], offset |-> 0],
        err |-> index.err, lockFile |-> lockFile]
  ELSE
  LET s == [pager |-> dataPager, index |-> [pager |-> index.p, root |-> index.root],
            offset |-> 0] IN
  IF lockFile
     THEN [s |-> [s EXCEPT !.offset = ScanLog(dataPager, 0)], err |-> Ok, lockFile |-> TRUE]
     ELSE Let([r \in {recoverIndex(s)} |-> [s |-> r.s, err |-> r.err, lockFile |-> FALSE]])])])])

\* NewStore over the files of the data directory: the bytes of data.db,
\* the pages of index.db and whether clean.lock exists.
NewStore(dataFile, indexFile, lockFile) ==
  Let([dataPager \in {NewPagerOn(<<>>, dataFile)} |->
  Let([indexPager \in {NewPagerOn(indexFile, <<>>)} |->
  Let([index \in {NewIndex(indexPager)} |->
  IF index.err # Ok
  THEN [s |-> [pager |-> Close(dataPager).p,
               index |-> [pager |-> Close(index.p).p, root |-> 0], offset |-> 0],
        err |-> index.err, lockFile |-> lockFile]
  ELSE
  LET s == [pager |-> dataPager, index |-> [pager |-> index.p, root |-> index.root],
            offset |-> 0] IN
  IF lockFile
     THEN [s |-> [s EXCEPT !.offset = ScanLog(dataPager, 0)], err |-> Ok, lockFile |-> FALSE]
     ELSE Let([r \in {recoverIndex(s)} |-> [s |-> r.s, err |-> r.err, lockFile |-> FALSE]])])])])

\* writeAndIndex that leaves the append offset where it was.
writeWithoutAdvance(s, t, key, value, inserMode) ==
  LET serialized == serialize(Record(t, key, value)) IN
  Let([w \in {WriteAtOffset(s.pager, s.offset, serialized)} |->
  IF w.err # Ok THEN [s |-> s, err |-> w.err] ELSE
     Let([i \in {Insert(s.index.pager, s.index.root, hashKey(key), s.offset, inserMode)} |->
     [s |-> [s EXCEPT !.pager = w.p, !.index = [pager |-> i.p, root |-> i.root]],
      err |-> i.err]])])

\* writeAndIndex that tells the index of a record it has not written.
indexUnwritten(s, t, key, value, inserMode) ==
  LET serialized == serialize(Record(t, key, value)) IN
  Let([i \in {Insert(s.index.pager, s.index.root, hashKey(key), s.offset, inserMode)} |->
  LET s1 == [s EXCEPT !.index = [pager |-> i.p, root |-> i.root]] IN
  IF i.err # Ok THEN [s |-> s1, err |-> i.err]
     ELSE [s |-> [s1 EXCEPT !.offset = s.offset + Len(serialized)], err |-> Ok]])

\* Put, Update and Add differ in the insert mode only: the record is
\* written at s.offset, then the index is told, then the offset advances.
writeAndIndex(s, t, key, value, inserMode) ==
  LET serialized == serialize(Record(t, key, value)) IN
  Let([w \in {WriteAtOffset(s.pager, s.offset, serialized)} |->
  IF w.err # Ok THEN [s |-> s, err |-> w.err] ELSE
     Let([i \in {Insert(s.index.pager, s.index.root, hashKey(key), s.offset, inserMode)} |->
     LET s1 == [s EXCEPT !.pager = w.p, !.index = [pager |-> i.p, root |-> i.root]] IN
     IF i.err # Ok THEN [s |-> s1, err |-> i.err]
        ELSE [s |-> [s1 EXCEPT !.offset = s.offset + Len(serialized)], err |-> Ok]])])

Put(s, key, value) == writeAndIndex(s, RecordTypeInsert, key, value, Upsert)

Update(s, key, value) == writeAndIndex(s, RecordTypeInsert, key, value, UpdateOnly)

Add(s, key, value) == writeAndIndex(s, RecordTypeInsert, key, value, InsertOnly)

\* Get: found is FALSE with err = Ok for a key without index entry and for
\* a key whose record is a tombstone.
Get(s, key) ==
  Let([f \in {Search(s.index.pager, s.index.root, hashKey(key))} |->
  LET s1 == [s EXCEPT !.index.pager = f.p] IN
  IF f.err = ErrKeyNotFound THEN [s |-> s1, err |-> Ok, found |-> FALSE, value |-> <<>>]
     ELSE IF f.err # Ok THEN [s |-> s1, err |-> f.err, found |-> FALSE, value |-> <<>>]
     ELSE Let([r \in {readRecord(s.pager, f.value)} |->
          IF r.err # Ok THEN [s |-> s1, err |-> r.err, found |-> FALSE, value |-> <<>>]
          ELSE IF r.r.RecordType = RecordTypeDelete
            THEN [s |-> s1, err |-> Ok, found |-> FALSE, value |-> <<>>]
          ELSE [s |-> s1, err |-> Ok, found |-> TRUE, value |-> r.r.Value]])])

\* Delete without the test for a tombstone.
StoreDeleteAgain(s, key) ==
  Let([f \in {Search(s.index.pager, s.index.root, hashKey(key))} |->
  LET s1 == [s EXCEPT !.index.pager = f.p] IN
  IF f.err = ErrKeyNotFound THEN [s |-> s1, err |-> Ok, deleted |-> FALSE]
     ELSE IF f.err # Ok THEN [s |-> s1, err |-> f.err, deleted |-> FALSE]
     ELSE Let([w \in {writeAndIndex(s1, RecordTypeDelete, key, <<>>, Upsert)} |->
          [s |-> w.s, err |-> w.err, deleted |-> w.err = Ok]])])

StoreDelete(s, key) ==
  Let([f \in {Search(s.index.pager, s.index.root, hashKey(key))} |->
  LET s1 == [s EXCEPT !.index.pager = f.p] IN
  IF f.err = ErrKeyNotFound THEN [s |-> s1, err |-> Ok, deleted |-> FALSE]
     ELSE IF f.err # Ok THEN [s |-> s1, err |-> f.err, deleted |-> FALSE]
     ELSE Let([r \in {readRecord(s.pager, f.value)} |->
          IF r.err # Ok THEN [s |-> s1, err |-> r.err, deleted |-> FALSE]
          ELSE IF r.r.RecordType = RecordTypeDelete
            THEN [s |-> s1, err |-> Ok, deleted |-> FALSE]
          ELSE Let([w \in {writeAndIndex(s1, RecordTypeDelete, key, <<>>, Upsert)} |->
               [s |-> w.s, err |-> w.err, deleted |-> w.err = Ok]])])])

\* Index.Close: the meta page is synced, then the pager closed.
IndexClose(index) ==
  Let([m \in {syncMetaPage(index.pager, index.root)} |->
  IF m.err # Ok THEN [index |-> [index EXCEPT !.pager = m.p], err |-> m.err]
  ELSE [index |-> [index EXCEPT !.pager = Close(m.p).p], err |-> Ok]])

\* Store.Close: the index, then the log's pager, then clean.lock.
StoreClose(s) ==
  Let([i \in {IndexClose(s.index)} |->
  LET s1 == [s EXCEPT !.index = i.index] IN
  IF i.err # Ok THEN [s |-> s1, err |-> i.err, lockFile |-> FALSE]
     ELSE [s |-> [s1 EXCEPT !.pager = Close(s.pager).p], err |-> Ok, lockFile |-> TRUE]])

(***************************************************************************)
(* Iterator (iterator.go:48-81) and Scanner.Next (scanner.go:63-73).       *)
(***************************************************************************)
NewIterator(s, startKey, endKey) ==
  Let([c \in {NewCursor(s.index.pager, s.index.root, startKey, endKey)} |->
  [s |-> [s EXCEPT !.index.pager = c.p], err |-> c.err, cursor |-> c.c]])

\* Iterator.Next: the cursor's key with the value of the record at the
\* cursor's offset; a tombstone gives the key with the nil value.
IteratorNext(s, cursor) ==
  Let([n \in {CursorNext(s.index.pager, cursor)} |->
  LET s1 == [s EXCEPT !.index.pager = n.p] IN
  IF n.err # Ok THEN [s |-> s1, cursor |-> n.c, err |-> n.err, key |-> NilKey, value |-> <<>>]
     ELSE IF n.key = NilKey
       THEN [s |-> s1, cursor |-> n.c, err |-> Ok, key |-> NilKey, value |-> <<>>]
     ELSE Let([r \in {readRecord(s.pager, n.value)} |->
          IF r.err # Ok
          THEN [s |-> s1, cursor |-> n.c, err |-> r.err, key |-> NilKey, value |-> <<>>]
          ELSE [s |-> s1, cursor |-> n.c, err |-> Ok, key |-> n.key, value |-> r.r.Value]])])

(***************************************************************************)
(* State.                                                                  *)
(***************************************************************************)
VARIABLES
  store,     \* the Store of the store specification: [pager, index, offset]
  lockFile,  \* whether clean.lock exists in the data directory
  phase,     \* "open", "closed", "crashed", "failed" (an open that failed), "dead" (a panic)
  index,     \* the Index of the index specification: [pager, root]
  pager,     \* the pagers of the pager specification: [pages, bytes]
  ref,       \* the reference map of the keys: key -> value, NoValue when absent
  last,      \* the last call: its arguments, results and what it was called on
  iter,      \* the open cursor or iterator and what it has returned
  steps,     \* the number of calls made so far
  session,   \* the number of times the store has been opened
  worker     \* where the sync worker of a pager and a Close of that pager stand

vars == <<store, lockFile, phase, index, pager, ref, last, iter, steps, session, worker>>

\* No worker is followed: the periodic flush, where a specification has it, is one step.
NoWorker == [at |-> "none", done |-> FALSE, wg |-> 0, closing |-> "no", fileClosed |-> FALSE]

NoValue == 0 - 1

NoLast == [op |-> "none"]

NoIter == [open |-> FALSE]

\* The content of a page as a read would find it, without the read.
PeekPage(p, id) ==
  IF id \in DOMAIN p.cache THEN p.cache[id].page
  ELSE IF id < Len(p.file) THEN p.file[id + 1]
  ELSE ZeroPage

\* The result of Search(key) in the current index, without the reads.
SearchView(ix, key) ==
  Let([f \in {Search(ix.pager, ix.root, key)} |-> [err |-> f.err, value |-> f.value]])

\* What Search(key) returns on the reference map r.
RefView(r, key) ==
  IF r[key] = NoValue THEN [err |-> ErrKeyNotFound, value |-> 0]
  ELSE [err |-> Ok, value |-> r[key]]

(***************************************************************************)
(* The index specification: one Index over a pager of its own, driven by   *)
(* Insert, Delete, Search and cursors over the keys IndexKeys.  It starts  *)
(* from the index that the inserts of one of the sequences InitSeqs leave  *)
(* and makes up to MaxIndexOps calls.                                      *)
(***************************************************************************)
\* The keys have a first byte 1..NumKeys and LongPad zero bytes, so that
\* a leaf splits at its third key; one more key is a prefix of key 2.
NumKeys == 5

LongPad == 699

ShortPad == 649

K(b) == Key(<<b>>, LongPad)

ShortKey == Key(<<2>>, ShortPad)

IndexKeys == {K(b) : b \in 1..NumKeys} \cup {ShortKey}

\* The value of the inserts before the first state and of those after it.
InitValue == 1

IndexValues == {2}

InsertModes == {Upsert, InsertOnly, UpdateOnly}

MaxIndexOps == 3

\* Ascending and descending runs: one leaf, two leaves, three levels.
InitSeqs ==
  {<<>>, <<K(1), K(2), K(3)>>, <<K(1), K(2), K(3), K(4)>>,
   <<K(1), ShortKey, K(2), K(3), K(4), K(5)>>, <<K(5), K(4), K(3), K(2), K(1)>>}

\* The bounds of the cursors that the cursor actions open.
CursorBounds == {NilKey, ShortKey, K(3), K(5)}

InitCommon ==
  /\ worker = NoWorker
  /\ store = NoStore
  /\ lockFile = FALSE
  /\ pager = [pages |-> NewPager, bytes |-> NewPager]
  /\ last = NoLast
  /\ iter = NoIter
  /\ steps = 0
  /\ session = 0

RECURSIVE InsertAll(_, _, _)
\* The index after Insert(seq[i], InitValue, Upsert) for i = from..Len(seq).
InsertAll(ix, seq, from) ==
  IF from > Len(seq) THEN ix
  ELSE Let([r \in {Insert(ix.pager, ix.root, seq[from], InitValue, Upsert)} |->
       InsertAll([pager |-> r.p, root |-> r.root], seq, from + 1)])

InitIndex ==
  /\ InitCommon
  /\ phase = "open"
  /\ \E seq \in InitSeqs :
       /\ \E n \in {NewIndex(NewPager)} :
            index = InsertAll([pager |-> n.p, root |-> n.root], seq, 1)
       /\ ref = [k \in IndexKeys |->
                   IF \E i \in 1..Len(seq) : seq[i] = k THEN InitValue ELSE NoValue]

\* A call is made while the index is usable, no cursor is being drained
\* and fewer than MaxIndexOps calls have been made.
IndexCall ==
  /\ phase = "open"
  /\ steps < MaxIndexOps
  /\ iter.open => iter.done
  /\ steps' = steps + 1

\* The reference map after Insert(key, value, mode).
RefInsert(r, key, value, mode) ==
  IF mode = InsertOnly /\ r[key] # NoValue THEN r
  ELSE IF mode = UpdateOnly /\ r[key] = NoValue THEN r
  ELSE [r EXCEPT ![key] = value]

IndexInsert(key, value, mode) ==
  /\ IndexCall
  /\ \E r \in {Insert(index.pager, index.root, key, value, mode)} :
     /\ index' = [pager |-> r.p, root |-> r.root]
     /\ phase' = IF r.err = ErrPanic THEN "dead" ELSE phase
     /\ last' = [op |-> "Insert", key |-> key, value |-> value, mode |-> mode,
                 err |-> r.err, had |-> ref[key] # NoValue]
  /\ ref' = RefInsert(ref, key, value, mode)
  /\ iter' = NoIter
  /\ UNCHANGED <<worker, store, lockFile, pager, session>>

IndexDelete(key) ==
  /\ IndexCall
  /\ \E r \in {Delete(index.pager, index.root, key)} :
     /\ index' = [pager |-> r.p, root |-> r.root]
     /\ phase' = IF r.err = ErrPanic THEN "dead" ELSE phase
     /\ last' = [op |-> "Delete", key |-> key, err |-> r.err, had |-> ref[key] # NoValue]
  /\ ref' = [ref EXCEPT ![key] = NoValue]
  /\ iter' = NoIter
  /\ UNCHANGED <<worker, store, lockFile, pager, session>>

IndexSearch(key) ==
  /\ IndexCall
  /\ \E r \in {Search(index.pager, index.root, key)} :
     /\ index' = [index EXCEPT !.pager = r.p]
     /\ last' = [op |-> "Search", key |-> key, err |-> r.err, value |-> r.value]
  /\ iter' = NoIter
  /\ UNCHANGED <<worker, store, lockFile, phase, pager, ref, session>>

IndexNewCursor(startKey, endKey) ==
  /\ IndexCall
  /\ \E r \in {NewCursor(index.pager, index.root, startKey, endKey)} :
     /\ index' = [index EXCEPT !.pager = r.p]
     /\ last' = [op |-> "NewCursor", err |-> r.err]
     /\ iter' = IF r.err # Ok THEN NoIter
                ELSE [open |-> TRUE, c |-> r.c, startKey |-> startKey, endKey |-> endKey,
                      out |-> <<>>, done |-> FALSE, err |-> Ok]
  /\ UNCHANGED <<worker, store, lockFile, phase, pager, ref, session>>

\* Cursor.Next on the open cursor; the nil key ends the scan.
IndexCursorNext ==
  /\ phase = "open"
  /\ iter.open
  /\ ~iter.done
  /\ \E r \in {CursorNext(index.pager, iter.c)} :
     /\ index' = [index EXCEPT !.pager = r.p]
     /\ last' = [op |-> "Next", err |-> r.err, key |-> r.key, value |-> r.value]
     /\ iter' = IF r.err # Ok \/ r.key = NilKey
                THEN [iter EXCEPT !.c = r.c, !.done = TRUE, !.err = r.err]
                ELSE [iter EXCEPT !.c = r.c, !.out = Append(@, <<r.key, r.value>>)]
  /\ UNCHANGED <<worker, store, lockFile, phase, pager, ref, steps, session>>

NextIndex ==
  \/ \E key \in IndexKeys, value \in IndexValues, mode \in InsertModes :
       IndexInsert(key, value, mode)
  \/ \E key \in IndexKeys : IndexDelete(key)
  \/ \E key \in IndexKeys : IndexSearch(key)
  \/ \E startKey \in CursorBounds, endKey \in CursorBounds :
       IndexNewCursor(startKey, endKey)
  \/ IndexCursorNext

SpecIndex == InitIndex /\ [][NextIndex]_vars

(***************************************************************************)
(* The store specification: one data directory, opened by NewStore, used   *)
(* through Put, Add, Update, Delete, Get and iterators, closed by Close or *)
(* lost in a crash, and opened again.  The background worker of the index  *)
(* pager flushes between the calls.                                        *)
(***************************************************************************)
StoreValues == {<<1>>, <<2>>}

MaxStoreOps == 3

MaxSessions == 2

Absent == [err |-> Ok, found |-> FALSE, value |-> <<>>]

Present(value) == [err |-> Ok, found |-> TRUE, value |-> value]

\* What Get returns for every key, without the reads.
GetView(s) ==
  [k \in StoreKeys |->
     Let([g \in {Get(s, k)} |-> [err |-> g.err, found |-> g.found, value |-> g.value]])]

\* What the index answers for the key: Ok (an entry), ErrKeyNotFound (no
\* entry) or the error of a page that cannot be read.
Lookup(s, key) == Search(s.index.pager, s.index.root, hashKey(key)).err

\* What a process that stops leaves of a pager: its file.
Dropped(p) == Close(NewPagerOn(p.file, p.log)).p

InitStore ==
  /\ worker = NoWorker
  /\ phase = "open"
  /\ \E n \in {NewStore(<<>>, <<>>, FALSE)} :
     /\ store = n.s
     /\ lockFile = n.lockFile
  /\ index = [pager |-> Dropped(NewPager), root |-> 0]
  /\ pager = [pages |-> NewPager, bytes |-> NewPager]
  /\ ref = [k \in StoreKeys |-> Absent]
  /\ last = NoLast
  /\ iter = NoIter
  /\ steps = 0
  /\ session = 1

StoreCall ==
  /\ phase = "open"
  /\ steps < MaxStoreOps
  /\ iter.open => iter.done
  /\ steps' = steps + 1

\* What every call of the store records of the state it was made in.
Before(op, key, value) ==
  [op |-> op, key |-> key, value |-> value, view |-> GetView(store),
   lookup |-> [k \in StoreKeys |-> Lookup(store, k)],
   offset |-> store.offset, log |-> store.pager.log]

Write(op, key, value, r) ==
  /\ StoreCall
  /\ store' = r.s
  /\ phase' = IF r.err = ErrPanic THEN "dead" ELSE phase
  /\ last' = [Before(op, key, value) EXCEPT !.op = op] @@ [err |-> r.err]
  /\ ref' = IF r.err = Ok THEN [ref EXCEPT ![key] = Present(value)] ELSE ref
  /\ iter' = NoIter
  /\ UNCHANGED <<worker, lockFile, index, pager, session>>

StorePut(key, value) == Write("Put", key, value, Put(store, key, value))

StoreAdd(key, value) == Write("Add", key, value, Add(store, key, value))

StoreUpdate(key, value) == Write("Update", key, value, Update(store, key, value))

StoreDel(key) ==
  /\ StoreCall
  /\ \E r \in {StoreDelete(store, key)} :
     /\ store' = r.s
     /\ phase' = IF r.err = ErrPanic THEN "dead" ELSE phase
     /\ last' = Before("Delete", key, <<>>) @@ [err |-> r.err, deleted |-> r.deleted]
     /\ ref' = IF r.err = Ok /\ r.deleted THEN [ref EXCEPT ![key] = Absent] ELSE ref
  /\ iter' = NoIter
  /\ UNCHANGED <<worker, lockFile, index, pager, session>>

StoreGet(key) ==
  /\ StoreCall
  /\ \E r \in {Get(store, key)} :
     /\ store' = r.s
     /\ last' = Before("Get", key, <<>>) @@ [err |-> r.err, found |-> r.found, got |-> r.value]
  /\ iter' = NoIter
  /\ UNCHANGED <<worker, lockFile, phase, index, pager, ref, session>>

\* The periodic flush of the index pager's worker (pager.go:533-549).
StoreTick ==
  /\ StoreCall
  /\ store' = [store EXCEPT !.index.pager = Flush(@).p]
  /\ last' = [op |-> "Tick"]
  /\ UNCHANGED <<worker, lockFile, phase, index, pager, ref, iter, session>>

StoreCloseCall ==
  /\ phase = "open"
  /\ \E r \in {StoreClose(store)} :
     /\ store' = r.s
     /\ lockFile' = r.lockFile
     /\ phase' = IF r.err = Ok THEN "closed" ELSE "failed"
     /\ last' = [op |-> "Close", err |-> r.err, view |-> GetView(store)]
  /\ iter' = NoIter
  /\ UNCHANGED <<worker, index, pager, ref, steps, session>>

\* The process stops without Close: of the dirty pages of the index pager
\* the pages written reach the file (Flush writes them in the order of a
\* map iteration, pager.go:519-528), the store and its caches are gone.
StoreCrash(written) ==
  /\ phase = "open"
  /\ LET ip == store.index.pager
         file == FlushIds(ip.file, ip.cache, written)
     IN store' = [pager |-> Dropped(store.pager),
                  index |-> [pager |-> Dropped([ip EXCEPT !.file = file]), root |-> 0],
                  offset |-> 0]
  /\ phase' = "crashed"
  /\ last' = [op |-> "Crash", view |-> GetView(store)]
  /\ iter' = NoIter
  /\ UNCHANGED <<worker, lockFile, index, pager, ref, steps, session>>

\* NewStore on the data directory as the last session left it.
StoreOpen ==
  /\ phase \in {"closed", "crashed"}
  /\ session < MaxSessions
  /\ session' = session + 1
  /\ \E r \in {NewStore(store.pager.log, store.index.pager.file, lockFile)} :
     /\ store' = r.s
     /\ lockFile' = r.lockFile
     /\ phase' = IF r.err = Ok THEN "open" ELSE "failed"
     /\ last' = [op |-> "Open", err |-> r.err, after |-> phase, view |-> last.view]
  /\ UNCHANGED <<worker, index, pager, ref, iter, steps>>

StoreNewIterator(startKey, endKey) ==
  /\ StoreCall
  /\ \E r \in {NewIterator(store, startKey, endKey)} :
     /\ store' = r.s
     /\ last' = [op |-> "NewIterator", err |-> r.err]
     /\ iter' = IF r.err # Ok THEN NoIter
                ELSE [open |-> TRUE, c |-> r.cursor, startKey |-> startKey,
                      endKey |-> endKey, out |-> <<>>, done |-> FALSE, err |-> Ok]
  /\ UNCHANGED <<worker, lockFile, phase, index, pager, ref, session>>

\* Iterator.Next on the open iterator.  tombstone: whether the record at
\* the offset that the cursor returned is a tombstone.
StoreIteratorNext ==
  /\ phase = "open"
  /\ iter.open
  /\ ~iter.done
  /\ \E r \in {IteratorNext(store, iter.c)}, c \in {CursorNext(store.index.pager, iter.c)} :
     LET rec == readRecord(store.pager, c.value) IN
     /\ store' = r.s
     /\ last' = [op |-> "Next", err |-> r.err, key |-> r.key, value |-> r.value,
                 tombstone |-> (c.err = Ok /\ c.key # NilKey /\ rec.err = Ok
                                /\ rec.r.RecordType = RecordTypeDelete)]
     /\ iter' = IF r.err # Ok \/ r.key = NilKey
                THEN [iter EXCEPT !.c = r.cursor, !.done = TRUE, !.err = r.err]
                ELSE [iter EXCEPT !.c = r.cursor, !.out = Append(@, <<r.key, r.value>>)]
  /\ UNCHANGED <<worker, lockFile, phase, index, pager, ref, steps, session>>

IterBounds == {NilKey, hashKey(KeyC1)}

NextStore ==
  \/ \E key \in StoreKeys, value \in StoreValues : StorePut(key, value)
  \/ \E key \in StoreKeys, value \in StoreValues : StoreAdd(key, value)
  \/ \E key \in StoreKeys, value \in StoreValues : StoreUpdate(key, value)
  \/ \E key \in StoreKeys : StoreDel(key)
  \/ \E key \in StoreKeys : StoreGet(key)
  \/ StoreTick
  \/ StoreCloseCall
  \/ \E written \in SUBSET DirtyIds(store.index.pager) : StoreCrash(written)
  \/ StoreOpen
  \/ \E startKey \in IterBounds, endKey \in IterBounds : StoreNewIterator(startKey, endKey)
  \/ StoreIteratorNext

SpecStore == InitStore /\ [][NextStore]_vars

(***************************************************************************)
(* The pager specification: two pagers as NewStore makes them, one used    *)
(* page by page (pages) and one by offset (bytes), as the index file and   *)
(* the log are.                                                            *)
(***************************************************************************)
MaxPagerOps == 3

MaxPageID == 2

\* A page id that no NewPage of the runs below has handed out.
FarPageID == MaxCacheSize

PageIDs == (0..MaxPageID) \cup {FarPageID}

PagerNames == {"pages", "bytes"}

PageContents == {RawPage(1, 0), NodePage(newLeafNode)}

ByteOffsets == {0, 2}

ByteData == {<<7>>, <<8, 9>>}

\* The arguments of a call: a page id and the content of a page.
Arg(id, page) == [id |-> id, page |-> page]

NoArg == Arg(0, ZeroPage)

\* What the specification remembers of the calls on the pager "pages":
\* for every page id the content that the last WritePage of that id wrote
\* (NewPage and FreePage write the page they hand out or take back), and
\* the number of NewPage calls that returned a page and how many of them
\* took the page from the free list.
NoPage == [kind |-> "none", w0 |-> 0, w1 |-> 0, node |-> NoNode]

WrittenIds == 0..(MaxCacheSize + MaxPagerOps)

NoCalls == [written |-> [id \in WrittenIds |-> NoPage], newPages |-> 0, reused |-> 0]

Track(g, op, arg, p, r) ==
  IF op = "NewIndex"
    THEN [g EXCEPT !.written = [id \in WrittenIds |->
                                  IF PeekPage(r.p, id) # PeekPage(p, id) THEN PeekPage(r.p, id)
                                  ELSE g.written[id]],
                   !.newPages = @ + r.p.numPages - p.numPages]
  ELSE IF r.err # Ok THEN g
  ELSE IF op = "WritePage" THEN [g EXCEPT !.written[arg.id] = arg.page]
  ELSE IF op = "NewPage"
    THEN [g EXCEPT !.written[r.id] = ZeroPage, !.newPages = @ + 1,
                   !.reused = IF p.freeListID # 0 THEN @ + 1 ELSE @]
  ELSE IF op = "FreePage" THEN [g EXCEPT !.written[arg.id] = RawPage(p.freeListID, 0)]
  ELSE g

RECURSIVE FreeListFrom(_, _, _)
\* The page ids on the free list from id on: each page's first word is
\* the id of the next, 0 ends the list.
FreeListFrom(p, id, fuel) ==
  IF id = 0 \/ fuel = 0 THEN {}
  ELSE {id} \cup FreeListFrom(p, Word0(PeekPage(p, id)), fuel - 1)

FreeList(p) == FreeListFrom(p, p.freeListID, MaxPageID + 2)

\* The pager and the record of its calls after one more call.
AfterWritePage(st, id, page) ==
  Let([r \in {WritePage(st.p, id, page)} |->
  [p |-> r.p, g |-> Track(st.g, "WritePage", Arg(id, page), st.p, r)]])

AfterNewPage(st) ==
  Let([r \in {NewPage(st.p)} |->
  [p |-> r.p, g |-> Track(st.g, "NewPage", NoArg, st.p, r)]])

RECURSIVE AfterNewPages(_, _)
\* n calls of NewPage, one after the other.
AfterNewPages(st, n) ==
  IF n = 0 THEN st
  ELSE IF n = 1 THEN AfterNewPage(st)
  ELSE Let([half \in {AfterNewPages(st, n \div 2)} |->
       AfterNewPages(half, n - n \div 2)])

\* The pager starts fresh, or with a full cache whose least recently used
\* page is a written page 0, or a written page past the page count, or with
\* the pages 0..MaxPageID of which 1 and then 2 were freed before a Flush.
InitPagers ==
  LET fresh == [p |-> NewPager, g |-> NoCalls] IN
  LET made == AfterNewPages(fresh, MaxPageID + 1) IN
  LET f1 == FreePage(made.p, 1) IN
  LET f2 == FreePage(f1.p, 2) IN
  {fresh,
   AfterNewPages(AfterWritePage(AfterNewPage(fresh), 0, RawPage(1, 0)), MaxCacheSize - 1),
   AfterNewPages(AfterWritePage(fresh, FarPageID, RawPage(1, 0)), MaxCacheSize - 1),
   [p |-> Flush(f2.p).p,
    g |-> Track(Track(made.g, "FreePage", Arg(1, ZeroPage), made.p, f1),
                "FreePage", Arg(2, ZeroPage), f1.p, f2)]}

InitPager ==
  /\ worker = NoWorker
  /\ store = NoStore
  /\ lockFile = FALSE
  /\ last = NoLast
  /\ iter = NoIter
  /\ steps = 0
  /\ session = 0
  /\ phase = "open"
  /\ index = [pager |-> Dropped(NewPager), root |-> 0]
  /\ \E st \in InitPagers :
       /\ pager = [pages |-> st.p, bytes |-> NewPager]
       /\ ref = st.g

\* A call on the pager named on, from p to r.p, with the error r.err.
PagerCall(op, on, arg, r) ==
  /\ steps < MaxPagerOps
  /\ steps' = steps + 1
  /\ pager' = [pager EXCEPT ![on] = r.p]
  /\ last' = [op |-> op, on |-> on, closed |-> pager[on].isClosed, err |-> r.err,
              same |-> r.p = pager[on], id |-> arg.id,
              numPages |-> pager[on].numPages, freeListID |-> pager[on].freeListID,
              isFree |-> arg.id \in FreeList(pager[on]),
              written |-> ref.written[arg.id],
              newID |-> IF "id" \in DOMAIN r THEN r.id ELSE 0,
              page |-> IF "page" \in DOMAIN r THEN r.page ELSE NoPage]
  /\ ref' = IF on = "pages" THEN Track(ref, op, arg, pager[on], r) ELSE ref
  /\ UNCHANGED <<worker, store, lockFile, phase, index, iter, session>>

PagerReadPage(id) ==
  PagerCall("ReadPage", "pages", Arg(id, ZeroPage), ReadPage(pager.pages, id))

PagerWritePage(id, page) ==
  PagerCall("WritePage", "pages", Arg(id, page), WritePage(pager.pages, id, page))

\* The page that NewPage returns is the cache's page of the id.
PagerNewPage ==
  \E r \in {NewPage(pager.pages)} :
    PagerCall("NewPage", "pages", Arg(r.id, ZeroPage),
              [p |-> r.p, err |-> r.err, id |-> r.id, page |-> PeekPage(r.p, r.id)])

PagerFreePage(id) ==
  PagerCall("FreePage", "pages", Arg(id, ZeroPage), FreePage(pager.pages, id))

PagerFlush(on) == PagerCall("Flush", on, NoArg, Flush(pager[on]))

PagerWriteAtOffset(offset, data) ==
  PagerCall("WriteAtOffset", "bytes", NoArg, WriteAtOffset(pager.bytes, offset, data))

PagerReadAtOffset(offset, size) ==
  PagerCall("ReadAtOffset", "bytes", NoArg,
            [p |-> pager.bytes, err |-> ReadAtOffset(pager.bytes, offset, size).err])

PagerGetSize(on) ==
  PagerCall("GetSize", on, NoArg, [p |-> pager[on], err |-> GetSize(pager[on]).err])

\* GetNumPages, GetFreeListID and SetFreeListID return no error.
PagerGetNumPages(on) ==
  /\ GetNumPages(pager[on]) >= 0
  /\ PagerCall("GetNumPages", on, NoArg, [p |-> pager[on], err |-> Ok])

PagerGetFreeListID(on) ==
  /\ GetFreeListID(pager[on]) >= 0
  /\ PagerCall("GetFreeListID", on, NoArg, [p |-> pager[on], err |-> Ok])

PagerSetFreeListID(on, id) ==
  PagerCall("SetFreeListID", on, Arg(id, ZeroPage),
            [p |-> SetFreeListID(pager[on], id), err |-> Ok])

PagerClose(on) == PagerCall("Close", on, NoArg, Close(pager[on]))

\* NewIndex over the page pager; the call reports the root id and the meta
\* page it found.
PagerNewIndex ==
  \E r \in {NewIndex(pager.pages)} :
    PagerCall("NewIndex", "pages", NoArg,
              [p |-> r.p, err |-> r.err, id |-> r.root, page |-> PeekPage(pager.pages, 0)])

NextPager ==
  \/ \E id \in PageIDs : PagerReadPage(id)
  \/ \E id \in PageIDs, page \in PageContents : PagerWritePage(id, page)
  \/ PagerNewPage
  \/ \E id \in 1..MaxPageID : PagerFreePage(id)
  \/ \E on \in PagerNames : PagerFlush(on)
  \/ \E offset \in ByteOffsets, data \in ByteData : PagerWriteAtOffset(offset, data)
  \/ \E offset \in ByteOffsets, size \in 1..2 : PagerReadAtOffset(offset, size)
  \/ \E on \in PagerNames : PagerGetSize(on)
  \/ \E on \in PagerNames : PagerGetNumPages(on)
  \/ \E on \in PagerNames : PagerGetFreeListID(on)
  \/ \E on \in PagerNames, id \in 0..MaxPageID : PagerSetFreeListID(on, id)
  \/ \E on \in PagerNames : PagerClose(on)
  \/ PagerNewIndex

SpecPager == InitPager /\ [][NextPager]_vars

(***************************************************************************)
(* The close specification: one pager, the caller that writes pages and    *)
(* closes it, and the sync worker that NewPager starts.  Close and the     *)
(* worker's Flush are followed step by step: worker.at is the position of  *)
(* the worker, worker.closing that of a Close that has not returned.       *)
(***************************************************************************)
MaxCloseOps == 3

\* NewPager: wg.Add(1) and go p.startPeriodicSync(); done is open.
StartedWorker ==
  [at |-> "select", done |-> FALSE, wg |-> 1, closing |-> "no", fileClosed |-> FALSE]

InitClose ==
  /\ store = NoStore
  /\ lockFile = FALSE
  /\ last = NoLast
  /\ iter = NoIter
  /\ steps = 0
  /\ session = 0
  /\ phase = "open"
  /\ index = [pager |-> Dropped(NewPager), root |-> 0]
  /\ pager = [pages |-> NewPager, bytes |-> NewPager]
  /\ ref = NoCalls
  /\ worker = StartedWorker

\* The caller is not inside Close and makes one more call.
CallerCall ==
  /\ worker.closing = "no"
  /\ steps < MaxCloseOps
  /\ steps' = steps + 1

CallerWritePage(id, page) ==
  /\ CallerCall
  /\ \E r \in {WritePage(pager.pages, id, page)} :
       /\ pager' = [pager EXCEPT !.pages = r.p]
       /\ last' = [op |-> "WritePage", err |-> r.err]
  /\ UNCHANGED <<store, lockFile, phase, index, ref, iter, session, worker>>

\* Close up to wg.Wait(): nil at once on a closed pager, else close(p.done).
CloseCall ==
  /\ CallerCall
  /\ IF pager.pages.isClosed
       THEN /\ last' = [op |-> "Close", err |-> Ok]
            /\ UNCHANGED worker
       ELSE /\ worker' = [worker EXCEPT !.done = TRUE, !.closing = "Wait"]
            /\ UNCHANGED last
  /\ UNCHANGED <<store, lockFile, phase, index, pager, ref, iter, session>>

\* Close that goes on to the final Flush without waiting for the worker.
CloseWithoutWait ==
  /\ worker.closing = "Wait"
  /\ worker' = [worker EXCEPT !.closing = "Flush"]
  /\ UNCHANGED <<store, lockFile, phase, index, pager, ref, last, iter, steps, session>>

\* p.wg.Wait() returns when the worker has called wg.Done().
CloseWait ==
  /\ worker.closing = "Wait"
  /\ worker.wg = 0
  /\ worker' = [worker EXCEPT !.closing = "Flush"]
  /\ UNCHANGED <<store, lockFile, phase, index, pager, ref, last, iter, steps, session>>

\* The final Flush of Close; its error is returned with the pager left open.
CloseFlush ==
  /\ worker.closing = "Flush"
  /\ \E r \in {Flush(pager.pages)} :
       /\ pager' = [pager EXCEPT !.pages = r.p]
       /\ IF r.err # Ok
            THEN /\ worker' = [worker EXCEPT !.closing = "no"]
                 /\ last' = [op |-> "Close", err |-> r.err]
            ELSE /\ worker' = [worker EXCEPT !.closing = "isClosed"]
                 /\ UNCHANGED last
  /\ UNCHANGED <<store, lockFile, phase, index, ref, iter, steps, session>>

\* p.isClosed = true and return p.file.Close().
CloseFile ==
  /\ worker.closing = "isClosed"
  /\ pager' = [pager EXCEPT !.pages.isClosed = TRUE]
  /\ worker' = [worker EXCEPT !.closing = "no", !.fileClosed = TRUE]
  /\ last' = [op |-> "Close", err |-> Ok]
  /\ UNCHANGED <<store, lockFile, phase, index, ref, iter, steps, session>>

\* The select of the worker takes the ticker's case.
WorkerTick ==
  /\ worker.at = "select"
  /\ worker' = [worker EXCEPT !.at = "Flush"]
  /\ UNCHANGED <<store, lockFile, phase, index, pager, ref, last, iter, steps, session>>

\* Flush of the worker up to p.mu.Lock(): the closed flag is read without
\* the lock, and ErrPagerClosed is logged.
WorkerFlushEnter ==
  /\ worker.at = "Flush"
  /\ worker' = [worker EXCEPT !.at = IF pager.pages.isClosed THEN "select" ELSE "Lock"]
  /\ UNCHANGED <<store, lockFile, phase, index, pager, ref, last, iter, steps, session>>

\* Flush of the worker under the lock: the dirty pages are written and
\* marked clean; on a closed file the writes fail and the pages stay dirty.
WorkerFlushWrite ==
  /\ worker.at = "Lock"
  /\ worker' = [worker EXCEPT !.at = "select"]
  /\ pager' = IF worker.fileClosed THEN pager
              ELSE [pager EXCEPT !.pages =
                      [Flush([@ EXCEPT !.isClosed = FALSE]).p EXCEPT !.isClosed = pager.pages.isClosed]]
  /\ UNCHANGED <<store, lockFile, phase, index, ref, last, iter, steps, session>>

\* The select of the worker takes the case of the closed done: the ticker
\* is stopped and the deferred wg.Done() runs.
WorkerDone ==
  /\ worker.at = "select"
  /\ worker.done
  /\ worker' = [worker EXCEPT !.at = "returned", !.wg = 0]
  /\ UNCHANGED <<store, lockFile, phase, index, pager, ref, last, iter, steps, session>>

NextClose ==
  \/ \E id \in PageIDs, page \in PageContents : CallerWritePage(id, page)
  \/ CloseCall
  \/ CloseWait
  \/ CloseFlush
  \/ CloseFile
  \/ WorkerTick
  \/ WorkerFlushEnter
  \/ WorkerFlushWrite
  \/ WorkerDone

SpecClose == InitClose /\ [][NextClose]_vars

(***************************************************************************)
(* The sync specification: one pager with the pages of a new index, the    *)
(* one caller thread and the sync worker, followed statement by statement  *)
(* where the two threads can interleave.  worker.mu is the holder of p.mu, *)
(* iter the call the caller is in (at: the statement it is about to run),  *)
(* ref the page images passed to a WritePage that has returned, and last   *)
(* the fields of the pager that the last step read or wrote, with whether  *)
(* the thread held p.mu.  The caller's *Page is the buffer of the cache    *)
(* entry: the cache holds the pointer that ReadPage returned and WritePage *)
(* was given, and nothing is evicted from a cache of these few pages.      *)
(***************************************************************************)
MaxSyncOps == 2

Idle == [op |-> "none", at |-> "none", id |-> 0, page |-> ZeroPage, node |-> NoNode]

Access(by, fields, locked) == [by |-> by, fields |-> fields, locked |-> locked]

\* A node page between the zeroing of its checksum field and the write of
\* the checksum (index.go:151-157, 231-237).
Unsummed(page) == [page EXCEPT !.kind = "unsummed"]

\* page.Data of the cached page id rewritten in place.
SetData(p, id, page) ==
  IF id \in DOMAIN p.cache THEN [p EXCEPT !.cache[id].page = page] ELSE p

\* The loop of Flush under the lock (pager.go:516-531).
FlushLocked(p) ==
  [p EXCEPT !.file = FlushIds(p.file, p.cache, DirtyIds(p)),
            !.cache = [i \in DOMAIN p.cache |-> [p.cache[i] EXCEPT !.isDirty = FALSE]]]

\* The pager of a new index, and the same with a third page that has been freed.
SyncPagers ==
  {n.p : n \in {NewIndex(NewPager)}}
    \cup {f.p : f \in {FreePage(NewPage(NewIndex(NewPager).p).p, 2)}}

\* The images passed to WritePage while the pager p was built.
Passed(p) ==
  {<<id, ZeroPage>> : id \in 0..(p.numPages - 1)}
    \cup {<<id, p.cache[id].page>> : id \in DOMAIN p.cache}

SyncWorker == [at |-> "select", done |-> FALSE, wg |-> 1, mu |-> "free"]

InitSync ==
  /\ store = NoStore
  /\ lockFile = FALSE
  /\ session = 0
  /\ phase = "open"
  /\ index = [pager |-> Dropped(NewPager), root |-> 0]
  /\ \E p \in SyncPagers :
       /\ pager = [pages |-> p, bytes |-> NewPager]
       /\ ref = Passed(p)
  /\ iter = Idle
  /\ last = Access("none", {}, TRUE)
  /\ steps = 0
  /\ worker = SyncWorker

\* The caller is in no call and makes one more.
Begin ==
  /\ iter.op = "none"
  /\ steps < MaxSyncOps
  /\ steps' = steps + 1

\* NewPage up to p.mu.Lock() of the ReadPage or WritePage it calls
\* (pager.go:388-395, 406-413): isClosed, freeListID and numPages are read.
NewPageEnter ==
  /\ Begin
  /\ LET p == pager.pages IN
     /\ iter' = IF p.isClosed THEN Idle
                ELSE IF p.freeListID # 0
                  THEN [Idle EXCEPT !.op = "NewPage", !.at = "ReadLock", !.id = p.freeListID]
                ELSE [Idle EXCEPT !.op = "NewPage", !.at = "WriteLock", !.id = p.numPages]
     /\ last' = Access("caller",
                       IF p.isClosed THEN {"isClosed"}
                       ELSE IF p.freeListID # 0 THEN {"isClosed", "freeListID"}
                       ELSE {"isClosed", "freeListID", "numPages"}, FALSE)
  /\ UNCHANGED <<store, lockFile, phase, index, session, pager, ref, worker>>

\* p.mu.Lock() of ReadPage, WritePage or Flush as the caller runs them.
CallerLock ==
  /\ iter.at \in {"ReadLock", "WriteLock", "FlushLock"}
  /\ worker.mu = "free"
  /\ worker' = [worker EXCEPT !.mu = "caller"]
  /\ iter' = [iter EXCEPT !.at = IF iter.at = "ReadLock" THEN "ReadPage"
                                 ELSE IF iter.at = "WriteLock" THEN "WritePage" ELSE "Flush"]
  /\ last' = Access("caller", {}, TRUE)
  /\ UNCHANGED <<store, lockFile, phase, index, session, pager, ref, steps>>

\* ReadPage under the lock, up to the deferred Unlock (pager.go:326-354).
CallerReadBody ==
  /\ iter.at = "ReadPage"
  /\ worker.mu = "caller"
  /\ \E r \in {ReadPage(pager.pages, iter.id)} :
       /\ pager' = [pager EXCEPT !.pages = r.p]
       /\ iter' = IF r.err # Ok THEN Idle
                  ELSE [iter EXCEPT !.at = IF iter.op = "NewPage" THEN "relink" ELSE "clear",
                                    !.page = r.page]
  /\ worker' = [worker EXCEPT !.mu = "free"]
  /\ last' = Access("caller", {"cache", "lruList", "numPages"}, TRUE)
  /\ UNCHANGED <<store, lockFile, phase, index, session, ref, steps>>

\* NewPage after ReadPage of the head of the free list (pager.go:398-405).
NewPageRelink ==
  /\ iter.op = "NewPage"
  /\ iter.at = "relink"
  /\ pager' = [pager EXCEPT !.pages =
                 [SetData(@, iter.id, ZeroPage) EXCEPT !.freeListID = Word0(iter.page)]]
  /\ iter' = Idle
  /\ last' = Access("caller", {"freeListID"}, FALSE)
  /\ UNCHANGED <<store, lockFile, phase, index, session, ref, steps, worker>>

\* WritePage under the lock, up to the deferred Unlock (pager.go:361-385).
CallerWriteBody ==
  /\ iter.at = "WritePage"
  /\ worker.mu = "caller"
  /\ \E w \in {WritePage(pager.pages, iter.id, iter.page)} :
       pager' = [pager EXCEPT !.pages = w.p]
  /\ ref' = ref \cup {<<iter.id, iter.page>>}
  /\ iter' = IF iter.op = "NewPage" THEN [iter EXCEPT !.at = "count"]
             ELSE IF iter.op = "FreePage" THEN [iter EXCEPT !.at = "link"]
             ELSE Idle
  /\ worker' = [worker EXCEPT !.mu = "free"]
  /\ last' = Access("caller", {"cache", "lruList"}, TRUE)
  /\ UNCHANGED <<store, lockFile, phase, index, session, steps>>

\* p.numPages++ of NewPage (pager.go:418).
NewPageCount ==
  /\ iter.op = "NewPage"
  /\ iter.at = "count"
  /\ pager' = [pager EXCEPT !.pages.numPages = @ + 1]
  /\ iter' = Idle
  /\ last' = Access("caller", {"numPages"}, FALSE)
  /\ UNCHANGED <<store, lockFile, phase, index, session, ref, steps, worker>>

\* FreePage up to p.mu.Lock() of its WritePage (pager.go:492-502).
FreePageEnter(id) ==
  /\ Begin
  /\ id < pager.pages.numPages
  /\ LET p == pager.pages IN
     /\ iter' = IF p.isClosed THEN Idle
                ELSE [Idle EXCEPT !.op = "FreePage", !.at = "WriteLock", !.id = id,
                                  !.page = RawPage(p.freeListID, 0)]
     /\ last' = Access("caller",
                       IF p.isClosed THEN {"isClosed"} ELSE {"isClosed", "freeListID"}, FALSE)
  /\ UNCHANGED <<store, lockFile, phase, index, session, pager, ref, worker>>

\* p.freeListID = pageID of FreePage (pager.go:506).
FreePageLink ==
  /\ iter.op = "FreePage"
  /\ iter.at = "link"
  /\ pager' = [pager EXCEPT !.pages.freeListID = iter.id]
  /\ iter' = Idle
  /\ last' = Access("caller", {"freeListID"}, FALSE)
  /\ UNCHANGED <<store, lockFile, phase, index, session, ref, steps, worker>>

\* readNode up to p.mu.Lock() of its ReadPage (index.go:145, pager.go:321-326).
readNodeEnter(id) ==
  /\ Begin
  /\ id < pager.pages.numPages
  /\ iter' = IF pager.pages.isClosed THEN Idle
             ELSE [Idle EXCEPT !.op = "readNode", !.at = "ReadLock", !.id = id]
  /\ last' = Access("caller", {"isClosed"}, FALSE)
  /\ UNCHANGED <<store, lockFile, phase, index, session, pager, ref, worker>>

\* readNode zeroes the checksum field of the page it was given (index.go:150-152).
readNodeClear ==
  /\ iter.op = "readNode"
  /\ iter.at = "clear"
  /\ pager' = [pager EXCEPT !.pages =
                 IF iter.page.kind = "node" THEN SetData(@, iter.id, Unsummed(iter.page)) ELSE @]
  /\ iter' = [iter EXCEPT !.at = "verify"]
  /\ last' = Access("caller", {}, FALSE)
  /\ UNCHANGED <<store, lockFile, phase, index, session, ref, steps, worker>>

\* readNode compares the checksums and writes the stored one back when
\* they match (index.go:153-157); the rest of readNode only reads the page.
readNodeVerify ==
  /\ iter.op = "readNode"
  /\ iter.at = "verify"
  /\ pager' = [pager EXCEPT !.pages =
                 IF iter.page.kind = "node" THEN SetData(@, iter.id, iter.page) ELSE @]
  /\ iter' = Idle
  /\ last' = Access("caller", {}, FALSE)
  /\ UNCHANGED <<store, lockFile, phase, index, session, ref, steps, worker>>

\* writeNode zeroes the page it was given, a page of the cache (index.go:197-199).
writeNodeZero(id, n) ==
  /\ Begin
  /\ id # 0
  /\ id \in DOMAIN pager.pages.cache
  /\ pager' = [pager EXCEPT !.pages = SetData(@, id, ZeroPage)]
  /\ iter' = [Idle EXCEPT !.op = "writeNode", !.at = "fill", !.id = id, !.node = n]
  /\ last' = Access("caller", {}, FALSE)
  /\ UNCHANGED <<store, lockFile, phase, index, session, ref, worker>>

\* writeNode writes keys, slots, pointers and the header with checksum 0
\* (index.go:201-233).
writeNodeFill ==
  /\ iter.op = "writeNode"
  /\ iter.at = "fill"
  /\ pager' = [pager EXCEPT !.pages = SetData(@, iter.id, Unsummed(EncodeNode(iter.node)))]
  /\ iter' = [iter EXCEPT !.at = "sum"]
  /\ last' = Access("caller", {}, FALSE)
  /\ UNCHANGED <<store, lockFile, phase, index, session, ref, steps, worker>>

\* writeNode writes the checksum and calls WritePage, which reads isClosed
\* (index.go:234-239, pager.go:356-361).
writeNodeSum ==
  /\ iter.op = "writeNode"
  /\ iter.at = "sum"
  /\ pager' = [pager EXCEPT !.pages = SetData(@, iter.id, EncodeNode(iter.node))]
  /\ iter' = IF pager.pages.isClosed THEN Idle
             ELSE [iter EXCEPT !.at = "WriteLock", !.page = EncodeNode(iter.node)]
  /\ last' = Access("caller", {"isClosed"}, FALSE)
  /\ UNCHANGED <<store, lockFile, phase, index, session, ref, steps, worker>>

\* Flush up to p.mu.Lock() (pager.go:511-515).
FlushEnter ==
  /\ Begin
  /\ iter' = IF pager.pages.isClosed THEN Idle
             ELSE [Idle EXCEPT !.op = "Flush", !.at = "FlushLock"]
  /\ last' = Access("caller", {"isClosed"}, FALSE)
  /\ UNCHANGED <<store, lockFile, phase, index, session, pager, ref, worker>>

\* Flush under the lock, up to the deferred Unlock (pager.go:516-531),
\* called by the caller or by its Close.
CallerFlushBody ==
  /\ iter.at = "Flush"
  /\ worker.mu = "caller"
  /\ pager' = [pager EXCEPT !.pages = FlushLocked(@)]
  /\ iter' = IF iter.op = "Close" THEN [iter EXCEPT !.at = "isClosed"] ELSE Idle
  /\ worker' = [worker EXCEPT !.mu = "free"]
  /\ last' = Access("caller", {"cache"}, TRUE)
  /\ UNCHANGED <<store, lockFile, phase, index, session, ref, steps>>

\* Close up to p.wg.Wait() (pager.go:551-556).
CloseEnter ==
  /\ Begin
  /\ IF pager.pages.isClosed
       THEN /\ iter' = Idle
            /\ UNCHANGED worker
       ELSE /\ iter' = [Idle EXCEPT !.op = "Close", !.at = "Wait"]
            /\ worker' = [worker EXCEPT !.done = TRUE]
  /\ last' = Access("caller", {"isClosed"}, FALSE)
  /\ UNCHANGED <<store, lockFile, phase, index, session, pager, ref>>

\* p.wg.Wait() returns and Close calls Flush, which reads isClosed
\* (pager.go:557-559, 511-515).
CloseJoin ==
  /\ iter.op = "Close"
  /\ iter.at = "Wait"
  /\ worker.wg = 0
  /\ iter' = [iter EXCEPT !.at = "FlushLock"]
  /\ last' = Access("caller", {"isClosed"}, FALSE)
  /\ UNCHANGED <<store, lockFile, phase, index, session, pager, ref, steps, worker>>

\* p.isClosed = true and p.file.Close() of Close (pager.go:563-564).
CloseMark ==
  /\ iter.op = "Close"
  /\ iter.at = "isClosed"
  /\ pager' = [pager EXCEPT !.pages.isClosed = TRUE]
  /\ iter' = Idle
  /\ last' = Access("caller", {"isClosed"}, FALSE)
  /\ UNCHANGED <<store, lockFile, phase, index, session, ref, steps, worker>>

\* The select of the worker takes the ticker's case (pager.go:540-541).
SyncTick ==
  /\ worker.at = "select"
  /\ worker' = [worker EXCEPT !.at = "Flush"]
  /\ last' = Access("worker", {}, FALSE)
  /\ UNCHANGED <<store, lockFile, phase, index, session, pager, ref, iter, steps>>

\* Flush of the worker up to p.mu.Lock() (pager.go:511-515).
SyncFlushEnter ==
  /\ worker.at = "Flush"
  /\ worker' = [worker EXCEPT !.at = IF pager.pages.isClosed THEN "select" ELSE "Lock"]
  /\ last' = Access("worker", {"isClosed"}, FALSE)
  /\ UNCHANGED <<store, lockFile, phase, index, session, pager, ref, iter, steps>>

\* p.mu.Lock() of the worker's Flush (pager.go:516).
SyncFlushLock ==
  /\ worker.at = "Lock"
  /\ worker.mu = "free"
  /\ worker' = [worker EXCEPT !.at = "write", !.mu = "worker"]
  /\ last' = Access("worker", {}, TRUE)
  /\ UNCHANGED <<store, lockFile, phase, index, session, pager, ref, iter, steps>>

\* Flush of the worker under the lock (pager.go:517-531).
SyncFlushWrite ==
  /\ worker.at = "write"
  /\ worker.mu = "worker"
  /\ pager' = [pager EXCEPT !.pages = FlushLocked(@)]
  /\ worker' = [worker EXCEPT !.at = "select", !.mu = "free"]
  /\ last' = Access("worker", {"cache"}, TRUE)
  /\ UNCHANGED <<store, lockFile, phase, index, session, ref, iter, steps>>

\* The worker that returns from its loop without the deferred wg.Done().
SyncReturnWithoutDone ==
  /\ worker.at = "select"
  /\ worker.done
  /\ worker' = [worker EXCEPT !.at = "returned"]
  /\ last' = Access("worker", {}, FALSE)
  /\ UNCHANGED <<store, lockFile, phase, index, session, pager, ref, iter, steps>>

\* The select of the worker takes the case of the closed done: the ticker
\* is stopped and the deferred wg.Done() runs (pager.go:534-546).
SyncReturn ==
  /\ worker.at = "select"
  /\ worker.done
  /\ worker' = [worker EXCEPT !.at = "returned", !.wg = 0]
  /\ last' = Access("worker", {}, FALSE)
  /\ UNCHANGED <<store, lockFile, phase, index, session, pager, ref, iter, steps>>

\* The nodes that the caller writes.
SyncNodes == {[newLeafNode EXCEPT !.keys = <<K(1)>>, !.values = <<InitValue>>]}

NextSync ==
  \/ NewPageEnter
  \/ NewPageRelink
  \/ NewPageCount
  \/ \E id \in 1..MaxPageID : FreePageEnter(id)
  \/ FreePageLink
  \/ \E id \in 1..MaxPageID : readNodeEnter(id)
  \/ readNodeClear
  \/ readNodeVerify
  \/ \E id \in 1..MaxPageID, n \in SyncNodes : writeNodeZero(id, n)
  \/ writeNodeFill
  \/ writeNodeSum
  \/ FlushEnter
  \/ CloseEnter
  \/ CloseJoin
  \/ CloseMark
  \/ CallerLock
  \/ CallerReadBody
  \/ CallerWriteBody
  \/ CallerFlushBody
  \/ SyncTick
  \/ SyncFlushEnter
  \/ SyncFlushLock
  \/ SyncFlushWrite
  \/ SyncReturn

SpecSync == InitSync /\ [][NextSync]_vars

\* The Go scheduler runs a goroutine that can run, and the select of the
\* worker chooses at random among the cases that are ready, so that the
\* case of the closed done is taken after finitely many ticks.
SpecSyncFair ==
  /\ SpecSync
  /\ WF_vars(SyncFlushEnter)
  /\ WF_vars(SyncFlushLock)
  /\ WF_vars(SyncFlushWrite)
  /\ SF_vars(SyncReturn)
  /\ WF_vars(CloseJoin)
  /\ WF_vars(CallerLock)
  /\ WF_vars(CallerFlushBody)
  /\ WF_vars(CloseMark)

(***************************************************************************)
(* What the claims about the index speak of.                               *)
(***************************************************************************)
TreeDepthLimit == 6

RECURSIVE EntriesOf(_, _, _)
\* The (key, value) pairs of the subtree at page id, left to right.
EntriesOf(p, id, fuel) ==
  LET page == PeekPage(p, id) IN
  IF fuel = 0 \/ page.kind # "node" THEN <<>>
  ELSE IF IsLeaf(page.node)
    THEN [i \in 1..Len(page.node.keys) |-> <<page.node.keys[i], page.node.values[i]>>]
  ELSE LET RECURSIVE Cat(_)
           Cat(i) == IF i > Len(page.node.children) THEN <<>>
                     ELSE EntriesOf(p, page.node.children[i], fuel - 1) \o Cat(i + 1)
       IN Cat(1)

TreeEntries(ix) == IF ix.root = 0 THEN <<>> ELSE EntriesOf(ix.pager, ix.root, TreeDepthLimit)

InRange(key, startKey, endKey) ==
  /\ startKey = NilKey \/ Compare(key, startKey) >= 0
  /\ endKey = NilKey \/ Compare(key, endKey) < 0

RangeOf(entries, startKey, endKey) ==
  SelectSeq(entries, LAMBDA e : InRange(e[1], startKey, endKey))

StrictlyAscending(entries) ==
  \A i \in 1..(Len(entries) - 1) : Compare(entries[i][1], entries[i + 1][1]) < 0

RECURSIVE DrainFrom(_, _, _)
\* The pairs that repeated Next calls return until the nil key.
DrainFrom(p, c, fuel) ==
  LET r == CursorNext(p, c) IN
  IF r.err # Ok THEN [err |-> r.err, out |-> <<>>]
  ELSE IF r.key = NilKey \/ fuel = 0 THEN [err |-> Ok, out |-> <<>>]
  ELSE LET d == DrainFrom(r.p, r.c, fuel - 1)
       IN [err |-> d.err, out |-> <<(<<r.key, r.value>>)>> \o d.out]

\* new_cursor(startKey, endKey) drained.
Drain(ix, startKey, endKey) ==
  LET c == NewCursor(ix.pager, ix.root, startKey, endKey) IN
  IF c.err # Ok THEN [err |-> c.err, out |-> <<>>]
  ELSE DrainFrom(c.p, c.c, 2 * Cardinality(IndexKeys))

\* C8: after Insert(Upsert) and Delete calls, Delete(k) returns ok exactly
\* when k is in the reference map and KeyNotFound otherwise, and Search
\* returns the reference map's value for every key in it and KeyNotFound
\* for every other key.
C8_IndexIsReferenceMap ==
  /\ last.op = "Delete" => last.err = (IF last.had THEN Ok ELSE ErrKeyNotFound)
  /\ last.op \in {"Insert", "Delete"} =>
       \A k \in IndexKeys : SearchView(index, k) = RefView(ref, k)

\* C9: a cursor made by new_cursor(start_key, end_key) and drained with
\* next() yields exactly the pairs of the tree whose key is at or above
\* start_key (when given) and below end_key (when given), in strictly
\* ascending order, each once with its value; nothing when start_key is at
\* or above end_key or above every key.  It holds of the cursor that the
\* actions drain and, whenever the tree has changed, of the drain of every
\* pair of bounds.
C9_CursorRange ==
  /\ (iter.open /\ iter.done) =>
       /\ iter.err = Ok
       /\ iter.out = RangeOf(TreeEntries(index), iter.startKey, iter.endKey)
       /\ StrictlyAscending(iter.out)
  /\ (phase = "open" /\ last.op \in {"none", "Insert", "Delete"}) =>
       \A startKey \in IndexKeys \cup {NilKey}, endKey \in IndexKeys \cup {NilKey} :
         LET d == Drain(index, startKey, endKey) IN
         /\ d.err = Ok
         /\ d.out = RangeOf(TreeEntries(index), startKey, endKey)
         /\ StrictlyAscending(d.out)
         /\ (startKey # NilKey /\ endKey # NilKey /\ Compare(startKey, endKey) >= 0)
              => d.out = <<>>

\* A drained cursor with both bounds given that returned two pairs or more
\* from a tree of three levels.
C9_Witness ==
  /\ iter.open /\ iter.done
  /\ iter.startKey # NilKey /\ iter.endKey # NilKey
  /\ Len(iter.out) >= 2
  /\ Len(TreeEntries(index)) > Len(iter.out)
  /\ ~IsLeaf(PeekPage(index.pager, index.root).node)
  /\ ~IsLeaf(PeekPage(index.pager, PeekPage(index.pager, index.root).node.children[1]).node)

(***************************************************************************)
(* What the claims about the store and the pager speak of.                 *)
(***************************************************************************)
\* C1: in one session, after any sequence of put, add, update and delete
\* calls, get(k) returns for every key k the value of the most recent
\* successful put/add/update on k, and not-found without error when the
\* most recent successful call on k was a delete or k was never written.
C1_GetReturnsLatest ==
  (phase = "open" /\ session = 1) => GetView(store) = ref

\* C2: after a crash between two calls (no close, no clean.lock, any
\* subset of the dirty index pages in the index file) the re-open succeeds
\* and get(k) returns for every key what the calls completed before the
\* crash imply.
C2_CrashRecovery ==
  (last.op = "Open" /\ last.after = "crashed") =>
    /\ last.err = Ok
    /\ GetView(store) = ref
    /\ GetView(store) = last.view

\* C3: after a clean close and a re-open of the same directory, get(k)
\* returns for every key exactly what it returned just before the close.
C3_CleanReopen ==
  (last.op = "Open" /\ last.after = "closed") =>
    /\ last.err = Ok
    /\ phase = "open"
    /\ GetView(store) = last.view

\* A clean re-open of a directory with a live key and a deleted key.
C3_Witness ==
  /\ last.op = "Open" /\ last.after = "closed" /\ phase = "open"
  /\ \E k \in StoreKeys : last.view[k].found
  /\ \E k \in StoreKeys : ~last.view[k].found /\ Lookup(store, k) = Ok

\* C4: add(k, v') on a key that has an entry in the index fails with
\* KeyAlreadyExists and changes nothing observable: get returns for every
\* key what it returned before, and the append offset is not advanced.
C4_AddExisting ==
  (last.op = "Add" /\ last.lookup[last.key] = Ok) =>
    /\ last.err = ErrKeyAlreadyExists
    /\ GetView(store) = last.view
    /\ store.offset = last.offset

\* A rejected add of another value for a live key, with a second live key.
C4_Witness ==
  /\ last.op = "Add" /\ last.lookup[last.key] = Ok
  /\ last.view[last.key].found /\ last.view[last.key].value # last.value
  /\ \E k \in StoreKeys : hashKey(k) # hashKey(last.key) /\ last.view[k].found

\* C5: update(k, v) on a key without entry in the index fails with
\* KeyNotFound and changes nothing observable: get returns what it
\* returned, no key is added to the index and the append offset is not
\* advanced; update on a key with an entry replaces its value.
C5_UpdateAbsent ==
  /\ (last.op = "Update" /\ last.lookup[last.key] = ErrKeyNotFound) =>
       /\ last.err = ErrKeyNotFound
       /\ GetView(store) = last.view
       /\ \A k \in StoreKeys : Lookup(store, k) = last.lookup[k]
       /\ store.offset = last.offset
  /\ (last.op = "Update" /\ last.lookup[last.key] = Ok) =>
       /\ last.err = Ok
       /\ GetView(store)[last.key] = Present(last.value)

\* A rejected update of an absent key while another key is live.
C5_Witness ==
  /\ last.op = "Update" /\ last.lookup[last.key] = ErrKeyNotFound
  /\ last.err = ErrKeyNotFound
  /\ \E k \in StoreKeys : last.view[k].found

PagerOps ==
  {"ReadPage", "WritePage", "NewPage", "FreePage", "Flush", "WriteAtOffset",
   "ReadAtOffset", "GetSize", "GetNumPages", "GetFreeListID", "SetFreeListID"}

\* C7: once close() has returned, every public call on that pager fails
\* with PagerClosed and changes no state, and a second close() returns ok
\* and changes nothing.
C7_ClosedPagerRejects ==
  (last.op \in PagerOps \cup {"Close"} /\ last.closed) =>
    /\ last.same
    /\ last.err = (IF last.op = "Close" THEN Ok ELSE ErrPagerClosed)

\* C10: Iterator.Next never returns a key whose record is a tombstone, and
\* a drained iterator has returned every live key of its range.
C10_IteratorSkipsTombstones ==
  /\ (last.op = "Next" /\ last.err = Ok /\ last.key # NilKey) => ~last.tombstone
  /\ (iter.open /\ iter.done) =>
       \A k \in StoreKeys :
         (GetView(store)[k].found /\ InRange(hashKey(k), iter.startKey, iter.endKey))
           => \E i \in 1..Len(iter.out) : iter.out[i][1] = hashKey(k)

\* C11: once write_page of a page id has returned ok, every later
\* read_page of that id on the open pager returns the bytes of the most
\* recent write of the id, whatever was read, written or evicted since.
C11_ReadReturnsLastWrite ==
  (last.op = "ReadPage" /\ ~last.closed /\ last.written # NoPage) =>
    /\ last.err = Ok
    /\ last.page = last.written

\* C12: new_page returns a page of zero bytes; with an empty free list its
\* id is the page count before the call and the page count grows by one,
\* so that on a fresh file the page count is the number of calls.
C12_NewPage ==
  /\ (last.op = "NewPage" /\ last.err = Ok) =>
       /\ last.page = ZeroPage
       /\ last.freeListID = 0 =>
            /\ last.newID = last.numPages
            /\ pager.pages.numPages = last.numPages + 1
       /\ last.freeListID # 0 => pager.pages.numPages = last.numPages
  /\ ~pager.pages.isClosed =>
       GetNumPages(pager.pages) = ref.newPages - ref.reused

\* A new_page that takes a page with a link in it from the free list.
C12_Witness ==
  /\ last.op = "NewPage" /\ last.err = Ok
  /\ last.freeListID # 0
  /\ last.written \notin {NoPage, ZeroPage}
  /\ ref.newPages > ref.reused

\* C13: read_page of an id at or above the page count that is not on the
\* free list fails with the out-of-range error, also after a write_page of
\* that id.
C13_ReadOutOfRange ==
  (last.op = "ReadPage" /\ ~last.closed /\ last.id >= last.numPages /\ ~last.isFree) =>
    /\ last.err = ErrPageOutOfRange
    /\ last.page = ZeroPage

TreeImage(ix) ==
  [root |-> ix.root, numPages |-> ix.pager.numPages, freeListID |-> ix.pager.freeListID,
   pages |-> [id \in 0..ix.pager.numPages |-> PeekPage(ix.pager, id)]]

\* C15: Delete of a key that the index does not hold (never inserted or deleted before) returns
\* ErrKeyNotFound and changes no page, neither the root nor the free list: every key is found as before.
C15_DeleteAbsent ==
  [][(last'.op = "Delete" /\ steps' = steps + 1 /\ ~last'.had) =>
       /\ last'.err = ErrKeyNotFound
       /\ TreeImage(index') = TreeImage(index)
       /\ \A k \in IndexKeys : SearchView(index', k) = SearchView(index, k)]_vars

\* A Delete of an absent key on a tree of more than one level.
C15_Witness ==
  /\ last.op = "Delete" /\ ~last.had /\ last.err = ErrKeyNotFound
  /\ PeekPage(index.pager, index.root).kind = "node"
  /\ ~IsLeaf(PeekPage(index.pager, index.root).node)
\* C16: clean.lock exists exactly from a Close that closed the index and the log pager without
\* error until the next NewStore: it is absent while the store is open, after a Close that failed
\* and after the process stopped without Close, so that the NewStore after a stop runs recoverIndex.
C16_CleanLock ==
  /\ lockFile <=> phase = "closed"
  /\ phase = "closed" => store.pager.isClosed /\ store.index.pager.isClosed
  /\ (last.op = "Open" /\ last.after = "crashed") => ~lockFile

\* The store opened again after a Close: NewStore found clean.lock and removed it.
C16_Witness ==
  /\ phase = "open" /\ session = MaxSessions
  /\ last.op = "Open" /\ last.after = "closed" /\ last.err = Ok
  /\ ~lockFile
\* The index as a crash at this moment would leave it to the next session:
\* the tree of the open store, and the tree in the file of a store that is
\* not open, with the root that its meta page names.
IndexNow ==
  IF phase = "open" THEN store.index
  ELSE [pager |-> store.index.pager, root |-> Word0(PeekPage(store.index.pager, 0))]

\* The record that a reader of the bytes of data.db finds at the offset.
DurableRecord(offset) == readRecord(NewPagerOn(<<>>, store.pager.log), offset)

\* C17: at every moment every entry (hash of a key, offset) of the index refers to a complete
\* record of a key with that hash in the bytes of the log file: the record is written and synced
\* before the index is told of it.
C17_IndexedRecordsDurable ==
  \A i \in 1..Len(TreeEntries(IndexNow)) :
    LET e == TreeEntries(IndexNow)[i] IN
    /\ DurableRecord(e[2]).err = Ok
    /\ hashKey(DurableRecord(e[2]).r.Key) = e[1]

\* After a stop of the process the index file holds entries of records that were written before.
C17_Witness ==
  /\ phase = "crashed"
  /\ Len(TreeEntries(IndexNow)) > 1
  /\ \E i, j \in 1..Len(TreeEntries(IndexNow)) : TreeEntries(IndexNow)[i][2] > TreeEntries(IndexNow)[j][2]
\* Whether key lies in [lo, hi); NilKey stands for no bound.
Within(key, lo, hi) ==
  /\ lo = NilKey \/ Compare(key, lo) >= 0
  /\ hi = NilKey \/ Compare(key, hi) < 0

RECURSIVE WellFormed(_, _, _, _, _)
\* Invariants K, L and I for the subtree at page id, whose keys the parents
\* confine to [lo, hi).
WellFormed(p, id, lo, hi, fuel) ==
  LET page == PeekPage(p, id)
      n == page.node IN
  IF fuel = 0 \/ page.kind # "node" THEN TRUE
  ELSE
    /\ \A i \in 1..(Len(n.keys) - 1) : Compare(n.keys[i], n.keys[i + 1]) < 0
    /\ \A i \in 1..Len(n.keys) : Within(n.keys[i], lo, hi)
    /\ IF IsLeaf(n) THEN Len(n.values) = Len(n.keys)
       ELSE /\ Len(n.children) = Len(n.keys) + 1
            /\ \A i \in 1..Len(n.children) :
                 WellFormed(p, n.children[i],
                            IF i = 1 THEN lo ELSE n.keys[i - 1],
                            IF i = Len(n.children) THEN hi ELSE n.keys[i],
                            fuel - 1)

\* C18: after every Insert and Delete every node reachable from the root has strictly increasing
\* keys, a leaf has as many values as keys, an internal node with N keys has N + 1 children, and
\* every key under child i is at least keys[i-1] and less than keys[i].
C18_NodeInvariants ==
  index.root # 0 => WellFormed(index.pager, index.root, NilKey, NilKey, TreeDepthLimit)
\* A Delete that merged two nodes of a tree of more than one level and freed a page.
C18_Witness ==
  /\ last.op = "Delete" /\ last.had
  /\ index.root # 0 /\ index.pager.freeListID # 0
  /\ Len(TreeEntries(index)) > 1
  /\ ~IsLeaf(PeekPage(index.pager, index.root).node)
RECURSIVE NodesOf(_, _, _)
\* The nodes of the subtree at page id.
NodesOf(p, id, fuel) ==
  LET page == PeekPage(p, id) IN
  IF fuel = 0 \/ page.kind \notin {"node", "garbled"} THEN {}
  ELSE {page.node} \cup
       (IF IsLeaf(page.node) THEN {}
        ELSE UNION {NodesOf(p, page.node.children[i], fuel - 1) : i \in 1..Len(page.node.children)})

\* The nodes of the tree of index ix but the root.
NonRootNodes(ix) ==
  IF ix.root = 0 THEN {}
  ELSE LET root == PeekPage(ix.pager, ix.root) IN
       IF root.kind \notin {"node", "garbled"} \/ IsLeaf(root.node) THEN {}
       ELSE UNION {NodesOf(ix.pager, root.node.children[i], TreeDepthLimit) :
                     i \in 1..Len(root.node.children)}

\* C19: after every index operation every node but the root has calculate_size of at least
\* merge_threshold, the two halves of a split and the two nodes of a borrow included.
C19_MergeThreshold ==
  \A n \in NonRootNodes(index) : calculateSize(n) >= mergeThreshold
\* The nodes of the tree of index ix.
TreeNodes(ix) == IF ix.root = 0 THEN {} ELSE NodesOf(ix.pager, ix.root, TreeDepthLimit + 1)

\* C20: after every index operation every node has calculate_size of at most split_threshold and
\* fits in a page, also the halves of a split and the nodes that a borrow or a merge rewrote.
C20_SplitThreshold ==
  \A n \in TreeNodes(index) :
    /\ calculateSize(n) <= splitThreshold
    /\ calculateSize(n) <= PageSize

RECURSIVE LeafIds(_, _, _)
\* The page ids of the leaves of the subtree at page id, left to right.
LeafIds(p, id, fuel) ==
  LET page == PeekPage(p, id) IN
  IF fuel = 0 \/ page.kind # "node" THEN <<>>
  ELSE IF IsLeaf(page.node) THEN <<id>>
  ELSE LET RECURSIVE Cat(_)
           Cat(i) == IF i > Len(page.node.children) THEN <<>>
                     ELSE LeafIds(p, page.node.children[i], fuel - 1) \o Cat(i + 1)
       IN Cat(1)

RECURSIVE ChainFrom(_, _, _)
\* The page ids that following next from leaf id visits, until next = 0.
ChainFrom(p, id, fuel) ==
  LET page == PeekPage(p, id) IN
  IF fuel = 0 \/ id = 0 \/ page.kind # "node" THEN <<>>
  ELSE <<id>> \o ChainFrom(p, page.node.next, fuel - 1)

\* The keys and values of the leaves ids, in the order of ids.
RECURSIVE EntriesAlong(_, _)
EntriesAlong(p, ids) ==
  IF ids = <<>> THEN <<>>
  ELSE LET n == PeekPage(p, Head(ids)).node IN
       [i \in 1..Len(n.keys) |-> <<n.keys[i], n.values[i]>>] \o EntriesAlong(p, Tail(ids))

\* The leaf chain of index ix from its leftmost leaf.
LeafChain(ix) ==
  LET leaves == LeafIds(ix.pager, ix.root, TreeDepthLimit) IN
  IF leaves = <<>> THEN <<>>
  ELSE ChainFrom(ix.pager, Head(leaves), ix.pager.numPages + 1)

\* C21: after every index operation the chain of next pointers from the leftmost leaf visits the
\* leaves of the tree, each once and in the order of the tree, and the keys along the chain are
\* the keys of the tree in strictly ascending order.
C21_LeafChain ==
  index.root # 0 =>
    /\ LeafChain(index) = LeafIds(index.pager, index.root, TreeDepthLimit)
    /\ EntriesAlong(index.pager, LeafChain(index)) = TreeEntries(index)
    /\ StrictlyAscending(EntriesAlong(index.pager, LeafChain(index)))

\* A Delete that merged leaves of a tree whose chain still has more than one leaf.
C21_Witness ==
  /\ last.op = "Delete" /\ last.had
  /\ index.pager.freeListID # 0
  /\ Len(LeafChain(index)) > 1
  /\ Len(EntriesAlong(index.pager, LeafChain(index))) > 2

RECURSIVE LeafIdFor(_, _, _, _)
\* The page id of the leaf of the subtree at page id that covers key.
LeafIdFor(p, id, key, fuel) ==
  LET page == PeekPage(p, id) IN
  IF fuel = 0 \/ page.kind # "node" THEN 0
  ELSE IF IsLeaf(page.node) THEN id
  ELSE LeafIdFor(p, page.node.children[SearchGT(page.node.keys, key) + 1], key, fuel - 1)

RECURSIVE PageIdsOf(_, _, _)
\* The page ids of the nodes of the subtree at page id.
PageIdsOf(p, id, fuel) ==
  LET page == PeekPage(p, id) IN
  IF fuel = 0 \/ page.kind # "node" THEN {}
  ELSE {id} \cup
       (IF IsLeaf(page.node) THEN {}
        ELSE UNION {PageIdsOf(p, page.node.children[i], fuel - 1) : i \in 1..Len(page.node.children)})

\* The leaf with (key, value) put in at its sorted place.
Grown(leaf, key, value) ==
  [leaf EXCEPT !.keys = InsertAt(leaf.keys, SearchGE(leaf.keys, key), key),
               !.values = InsertAt(leaf.values, SearchGE(leaf.keys, key), value)]

\* An Insert step that returns nil for a key that the leaf covering it did not hold.
InsertsNewKey ==
  /\ last'.op = "Insert" /\ steps' = steps + 1 /\ last'.err = Ok
  /\ index.root # 0
  /\ LeafIdFor(index.pager, index.root, last'.key, TreeDepthLimit) # 0
  /\ LET leaf == PeekPage(index.pager, LeafIdFor(index.pager, index.root, last'.key, TreeDepthLimit)).node IN
     \A i \in 1..Len(leaf.keys) : leaf.keys[i] # last'.key

\* C22: an insert that makes a leaf of N keys larger than split_threshold leaves keys[0..mid),
\* mid = N div 2, in the leaf and keys[mid..N) with their values in a new right sibling; the
\* sibling's next is the old next of the leaf and the leaf's next is the sibling; the promoted key
\* is the first key of the sibling; a root leaf that splits gets an internal root of one key and two children.
C22_LeafSplit ==
  [][InsertsNewKey =>
       LET lid == LeafIdFor(index.pager, index.root, last'.key, TreeDepthLimit)
           old == PeekPage(index.pager, lid).node
           all == Grown(old, last'.key, last'.value)
           N == Len(all.keys)
           mid == N \div 2
           left == PeekPage(index'.pager, lid)
           sid == left.node.next
           sib == PeekPage(index'.pager, sid)
           root == PeekPage(index'.pager, index'.root)
       IN calculateSize(all) > splitThreshold =>
            /\ left.kind = "node" /\ IsLeaf(left.node)
            /\ left.node.keys = SubSeq(all.keys, 1, mid)
            /\ left.node.values = SubSeq(all.values, 1, mid)
            /\ sid # 0 /\ sid \notin PageIdsOf(index.pager, index.root, TreeDepthLimit)
            /\ sib.kind = "node" /\ IsLeaf(sib.node)
            /\ sib.node.keys = SubSeq(all.keys, mid + 1, N)
            /\ sib.node.values = SubSeq(all.values, mid + 1, N)
            /\ sib.node.next = old.next
            /\ \E n \in TreeNodes(index') :
                 ~IsLeaf(n) /\ \E i \in 1..Len(n.keys) : n.keys[i] = sib.node.keys[1]
            /\ index.root = lid =>
                 /\ index'.root \notin {0, lid, sid}
                 /\ root.kind = "node" /\ ~IsLeaf(root.node)
                 /\ root.node.keys = <<sib.node.keys[1]>>
                 /\ root.node.children = <<lid, sid>>]_vars

\* Three inserts into the empty tree, the third of which split the root leaf.
C22_Witness ==
  /\ last.op = "Insert" /\ last.err = Ok /\ ~last.had
  /\ steps = MaxIndexOps
  /\ Len(TreeEntries(index)) = 3
  /\ \A i \in 1..3 : TreeEntries(index)[i][2] # InitValue
  /\ ~IsLeaf(PeekPage(index.pager, index.root).node)
  /\ Len(LeafChain(index)) = 2

RECURSIVE PathTo(_, _, _, _)
\* The page ids from page id down to the leaf that covers key.
PathTo(p, id, key, fuel) ==
  LET page == PeekPage(p, id) IN
  IF fuel = 0 \/ page.kind # "node" THEN <<>>
  ELSE IF IsLeaf(page.node) THEN <<id>>
  ELSE <<id>> \o PathTo(p, page.node.children[SearchGT(page.node.keys, key) + 1], key, fuel - 1)

\* The internal node with the promoted key and the new child put in at the
\* place where the descent to key left it.
GrownInternal(n, key, promotedKey, sibling) ==
  [n EXCEPT !.keys = InsertAt(n.keys, SearchGT(n.keys, key), promotedKey),
            !.children = InsertAt(n.children, SearchGT(n.keys, key) + 1, sibling)]

\* An Insert step that splits the leaf covering its key, and with it the parent of that leaf.
SplitsParent ==
  /\ InsertsNewKey
  /\ Len(PathTo(index.pager, index.root, last'.key, TreeDepthLimit)) > 1
  /\ LET path == PathTo(index.pager, index.root, last'.key, TreeDepthLimit)
         lid == path[Len(path)]
         all == Grown(PeekPage(index.pager, lid).node, last'.key, last'.value)
         parent == PeekPage(index.pager, path[Len(path) - 1]).node
     IN /\ calculateSize(all) > splitThreshold
        /\ calculateSize(GrownInternal(parent, last'.key, all.keys[Len(all.keys) \div 2 + 1],
                                       PeekPage(index'.pager, lid).node.next)) > splitThreshold

\* C23: the split of an internal node promotes keys[mid], which stays in neither half: the node
\* keeps keys[..mid] and children[..mid+1], a new right sibling gets keys[mid+1..] and
\* children[mid+1..]; a root that splits gets a new root above it, the tree is one level deeper
\* and every key is found with the value it had.
C23_InternalSplit ==
  [][SplitsParent =>
       LET path == PathTo(index.pager, index.root, last'.key, TreeDepthLimit)
           lid == path[Len(path)]
           pid == path[Len(path) - 1]
           all == Grown(PeekPage(index.pager, lid).node, last'.key, last'.value)
           grown == GrownInternal(PeekPage(index.pager, pid).node, last'.key,
                                  all.keys[Len(all.keys) \div 2 + 1],
                                  PeekPage(index'.pager, lid).node.next)
           N == Len(grown.keys)
           mid == N \div 2
           left == PeekPage(index'.pager, pid)
           news == PageIdsOf(index'.pager, index'.root, TreeDepthLimit + 1)
                     \ PageIdsOf(index.pager, index.root, TreeDepthLimit)
           root == PeekPage(index'.pager, index'.root)
       IN /\ left.kind = "node" /\ ~IsLeaf(left.node)
          /\ left.node.keys = SubSeq(grown.keys, 1, mid)
          /\ left.node.children = SubSeq(grown.children, 1, mid + 1)
          /\ \E rid \in news :
               /\ ~IsLeaf(PeekPage(index'.pager, rid).node)
               /\ PeekPage(index'.pager, rid).node.keys = SubSeq(grown.keys, mid + 2, N)
               /\ PeekPage(index'.pager, rid).node.children = SubSeq(grown.children, mid + 2, N + 1)
               /\ \E up \in news \cup PageIdsOf(index.pager, index.root, TreeDepthLimit) :
                    LET n == PeekPage(index'.pager, up).node IN
                    /\ up \notin {pid, rid} /\ ~IsLeaf(n)
                    /\ \E i \in 1..Len(n.keys) : n.keys[i] = grown.keys[mid + 1]
               /\ pid = index.root =>
                    /\ index'.root \in news
                    /\ root.node.keys = <<grown.keys[mid + 1]>>
                    /\ root.node.children = <<pid, rid>>
                    /\ Len(PathTo(index'.pager, index'.root, last'.key, TreeDepthLimit + 1))
                         = Len(path) + 1
          /\ \A k \in IndexKeys :
               SearchView(index', k) =
                 IF k = last'.key THEN [err |-> Ok, value |-> last'.value]
                 ELSE SearchView(index, k)]_vars

\* The first Insert into the two-level tree of four keys: its root split and the tree has three levels.
C23_Witness ==
  /\ last.op = "Insert" /\ last.err = Ok /\ ~last.had
  /\ steps = 1
  /\ Len(TreeEntries(index)) = 5
  /\ Len(PathTo(index.pager, index.root, last.key, TreeDepthLimit)) = 3
  /\ Len(PeekPage(index.pager, index.root).node.keys) = 1

\* The pages that a step took out of the tree, but for a root that collapsed.
Absorbed ==
  (PageIdsOf(index.pager, index.root, TreeDepthLimit)
     \ PageIdsOf(index'.pager, index'.root, TreeDepthLimit)) \ {index.root}

\* The page id of the parent of page a in the tree of ix.
ParentOf(ix, a) ==
  CHOOSE q \in PageIdsOf(ix.pager, ix.root, TreeDepthLimit) :
    LET n == PeekPage(ix.pager, q).node IN
    ~IsLeaf(n) /\ \E i \in 1..Len(n.children) : n.children[i] = a

\* The set of the elements of sequence s.
Range(s) == {s[i] : i \in 1..Len(s)}

\* C24: a merge absorbs the right node of a pair of siblings into the left one: the absorbed page
\* leaves the tree and goes to the free list, its keys (with the parent separator, for internal
\* nodes) and its children are in the left node, a merged leaf has the next of the absorbed one,
\* and the next NewPage returns the page absorbed last without growing the file.
C24_Merge ==
  [][(last'.op = "Delete" /\ steps' = steps + 1 /\ Absorbed # {}) =>
       /\ \A a \in Absorbed :
            LET q == PeekPage(index.pager, ParentOf(index, a)).node
                i == CHOOSE j \in 1..Len(q.children) : q.children[j] = a
                old == PeekPage(index.pager, a).node
            IN /\ a \in FreeListFrom(index'.pager, index'.pager.freeListID, index'.pager.numPages)
               /\ \E j \in 1..(i - 1) :
                    LET s == q.children[j]
                        was == PeekPage(index.pager, s).node
                        now == PeekPage(index'.pager, s) IN
                    /\ s \notin Absorbed
                    /\ \A m \in (j + 1)..i : q.children[m] \in Absorbed
                    /\ s \in PageIdsOf(index'.pager, index'.root, TreeDepthLimit)
                    /\ now.kind = "node" /\ IsLeaf(now.node) = IsLeaf(old)
                    /\ IsLeaf(old) =>
                         /\ (Range(was.keys) \cup Range(old.keys)) \ {last'.key}
                              \subseteq Range(now.node.keys)
                         /\ now.node.next \notin Absorbed
                    /\ (IsLeaf(old) /\ old.next \notin Absorbed) => now.node.next = old.next
                    /\ ~IsLeaf(old) =>
                         /\ q.keys[i - 1] \in Range(now.node.keys)
                         /\ now.node.children =
                              SelectSeq(was.children \o old.children, LAMBDA c : c \notin Absorbed)
       /\ \E r \in {NewPage(index'.pager)} :
            /\ r.err = Ok
            /\ r.id = index'.pager.freeListID
            /\ r.id \in Absorbed
            /\ r.p.numPages = index'.pager.numPages]_vars

\* A Delete merged a leaf and then an internal node into their left siblings:
\* two pages are chained on the free list and the next NewPage takes the head.
C24_Witness ==
  /\ last.op = "Delete" /\ last.had /\ last.err = Ok
  /\ index.pager.freeListID # 0
  /\ Word0(PeekPage(index.pager, index.pager.freeListID)) # 0
  /\ NewPage(index.pager).id = index.pager.freeListID
  /\ ~IsLeaf(PeekPage(index.pager, index.root).node)
  /\ Len(PeekPage(index.pager, index.root).node.children) = 4

RECURSIVE FreeSeqFrom(_, _, _)
\* The free list as the sequence of page ids that successive NewPage calls
\* would follow, at most fuel of them.
FreeSeqFrom(p, id, fuel) ==
  IF id = 0 \/ fuel = 0 THEN <<>>
  ELSE <<id>> \o FreeSeqFrom(p, Word0(PeekPage(p, id)), fuel - 1)

FreeSeq(p) == FreeSeqFrom(p, p.freeListID, MaxPageID + 2)

NoIdTwice(s) == \A i, j \in 1..Len(s) : i # j => s[i] # s[j]

\* C25: the free list is a stack: after FreePage(a) and FreePage(b) the next two
\* NewPage calls return b and then a; NewPage adds a page to the file exactly when
\* the head is 0 and leaves the page count alone when it reuses a page; and a
\* FreePage never puts a page id on the list a second time.
C25_FreeList ==
  [][(steps' = steps + 1 /\ last'.on = "pages" /\ last'.err = Ok) =>
       /\ (last'.op = "FreePage" /\ last.op = "FreePage" /\ last.err = Ok) =>
            \E r1 \in {NewPage(pager'.pages)} : \E r2 \in {NewPage(r1.p)} :
              /\ r1.err = Ok /\ r1.id = last'.id
              /\ r2.err = Ok /\ r2.id = last.id
       /\ last'.op = "NewPage" =>
            /\ pager.pages.freeListID = 0 =>
                 /\ pager'.pages.numPages = pager.pages.numPages + 1
                 /\ last'.newID = pager.pages.numPages
            /\ pager.pages.freeListID # 0 =>
                 /\ pager'.pages.numPages = pager.pages.numPages
                 /\ last'.newID = pager.pages.freeListID
       /\ (last'.op = "FreePage" /\ NoIdTwice(FreeSeq(pager.pages))) =>
            NoIdTwice(FreeSeq(pager'.pages))]_vars

\* C26: whenever a call on the index has returned, the root id in the first word of
\* the meta page, as ReadPage(0) gives it, is the index's root page id.
C26_MetaRoot ==
  \E r \in {ReadPage(index.pager, 0)} :
    /\ r.err = Ok
    /\ Word0(r.page) = index.root

\* A Delete collapsed the root: the page of the old root, an internal node with no
\* key whose only child is the new root, is still in the file, and the meta page
\* names the new root.
C26_Witness ==
  /\ last.op = "Delete" /\ last.err = Ok /\ last.had
  /\ index.root # 0
  /\ Word0(PeekPage(index.pager, 0)) = index.root
  /\ \E id \in 1..(index.pager.numPages - 1) :
       LET pg == PeekPage(index.pager, id) IN
       /\ pg.kind = "node" /\ ~IsLeaf(pg.node)
       /\ pg.node.keys = <<>> /\ pg.node.children = <<index.root>>

\* The node in the page of the root of the index (the root is not 0).
RootNode == PeekPage(index.pager, index.root).node

\* Search and Delete of key return KeyNotFound on ix, an Insert of key is found by
\* Search afterwards, and a cursor over all keys ends at its first Next.
WorksWhenEmpty(ix, key) ==
  /\ Search(ix.pager, ix.root, key).err = ErrKeyNotFound
  /\ Delete(ix.pager, ix.root, key).err = ErrKeyNotFound
  /\ \E i \in {Insert(ix.pager, ix.root, key, InitValue, Upsert)} :
       /\ i.err = Ok
       /\ SearchView([pager |-> i.p, root |-> i.root], key) = [err |-> Ok, value |-> InitValue]
  /\ \E c \in {NewCursor(ix.pager, ix.root, NilKey, NilKey)} :
       /\ c.err = Ok
       /\ \E n \in {CursorNext(c.p, c.c)} : n.err = Ok /\ n.key = NilKey

\* C27: when Delete has returned, the root is not an internal node without keys; and
\* on a tree whose root is a leaf without keys Search, Insert, Delete and NewCursor
\* work as on any tree.
C27_RootCollapse ==
  index.root # 0 =>
    /\ last.op = "Delete" => ~(~IsLeaf(RootNode) /\ RootNode.keys = <<>>)
    /\ (IsLeaf(RootNode) /\ RootNode.keys = <<>>) => \A key \in IndexKeys : WorksWhenEmpty(index, key)

\* C28: when ReadPage or WritePage of a page id has returned without error, the cache
\* holds at most MaxCacheSize pages, the LRU list names the cached pages, each once,
\* the page of the call is at the front, the others keep their order, and the page
\* that left the cache, if any, is the one that was last in the list.
C28_CacheLRU ==
  [][(steps' = steps + 1 /\ last'.on = "pages" /\ last'.err = Ok
      /\ last'.op \in {"ReadPage", "WritePage"}) =>
       LET old == pager.pages
           new == pager'.pages
           touched == <<last'.id>> \o SelectSeq(old.lru, LAMBDA x : x # last'.id)
       IN /\ Cardinality(DOMAIN new.cache) <= MaxCacheSize
          /\ DOMAIN new.cache = Range(new.lru)
          /\ Len(new.lru) = Cardinality(DOMAIN new.cache)
          /\ new.lru[1] = last'.id
          /\ new.lru = IF Len(touched) > MaxCacheSize
                        THEN SubSeq(touched, 1, MaxCacheSize) ELSE touched
          /\ (DOMAIN old.cache) \ (DOMAIN new.cache)
               \subseteq {old.lru[i] : i \in {Len(old.lru)} \ {0}} \ {last'.id}]_vars

\* A read of a page that is not cached fills the full cache and evicts: the page
\* read is at the front, page 0, the least recently used before, is cached no more.
C28_Witness ==
  /\ last.op = "ReadPage" /\ last.on = "pages" /\ last.err = Ok
  /\ pager.pages.lru[1] = last.id
  /\ Len(pager.pages.lru) = MaxCacheSize
  /\ pager.pages.numPages >= MaxCacheSize
  /\ Len(pager.pages.file) > last.id
  /\ ~pager.pages.cache[last.id].isDirty

\* C29: when Flush has returned without error, no cached page is dirty, the file holds
\* at every cached page's place the content the cache holds, and the cached pages,
\* their LRU order, the page count and the free-list head are as before the call.
C29_Flush ==
  [][(steps' = steps + 1 /\ last'.op = "Flush" /\ last'.err = Ok) =>
       LET old == pager[last'.on]
           new == pager'[last'.on]
       IN /\ DirtyIds(new) = {}
          /\ \A id \in DOMAIN new.cache :
               /\ id < Len(new.file)
               /\ new.file[id + 1] = new.cache[id].page
          /\ DOMAIN new.cache = DOMAIN old.cache
          /\ \A id \in DOMAIN old.cache : new.cache[id].page = old.cache[id].page
          /\ new.lru = old.lru
          /\ new.numPages = old.numPages
          /\ new.freeListID = old.freeListID]_vars

\* C30: from the final Flush of Close on, and once the file is closed, the sync
\* worker has returned: no periodic Flush is about to run, runs or will run then.
C30_CloseJoinsWorker ==
  (worker.closing \in {"Flush", "isClosed"} \/ worker.fileClosed) =>
    /\ worker.at = "returned"
    /\ worker.wg = 0
    /\ worker.done

\* Close has returned on a pager with written pages: the file is closed and holds
\* the pages, and the worker has returned.
C30_Witness ==
  /\ last.op = "Close" /\ last.err = Ok
  /\ worker.fileClosed /\ pager.pages.isClosed
  /\ worker.at = "returned"
  /\ worker.closing = "no"
  /\ pager.pages.cache # <<>>
  /\ DirtyIds(pager.pages) = {}
  /\ Len(pager.pages.file) > 0

RECURSIVE RecordStarts(_, _, _)
\* The offsets at which the records of the log start when it is read from offset on,
\* with the offset after the last record that parses.
RecordStarts(p, offset, fuel) ==
  LET r == readRecord(p, offset) IN
  IF fuel = 0 \/ r.err # Ok THEN {offset}
  ELSE {offset} \cup RecordStarts(p, offset + Len(serialize(r.r)), fuel - 1)

\* A NewStore that found clean.lock in the directory of a closed store.
OpensClean == phase = "closed" /\ lockFile /\ last'.op = "Open" /\ session' = session + 1

\* C32: NewStore on a directory with clean.lock writes nothing to the index: the file of the
\* index and the entries of the tree are those that Close left (and Close left the entries the
\* index had), no page is dirty, the append offset is the end of the last record of the log
\* that parses, and clean.lock is gone.
C32_CleanOpen ==
  [][/\ (phase = "open" /\ last'.op = "Close" /\ last'.err = Ok) =>
          TreeEntries(IndexNow)' = TreeEntries(store.index)
     /\ OpensClean =>
          /\ last'.err = Ok /\ phase' = "open"
          /\ TreeEntries(store'.index) = TreeEntries(IndexNow)
          /\ store'.index.pager.file = store.index.pager.file
          /\ DirtyIds(store'.index.pager) = {}
          /\ store'.index.pager.numPages = Len(store.index.pager.file)
          /\ store'.pager.log = store.pager.log
          /\ LET starts == RecordStarts(store'.pager, 0, Len(store.pager.log) + 1) IN
             /\ store'.offset \in starts
             /\ \A o \in starts : o <= store'.offset
             /\ readRecord(store'.pager, store'.offset).err # Ok
          /\ ~lockFile']_vars

\* The store opened with clean.lock over an index with two entries and a log of three records.
C32_Witness ==
  /\ last.op = "Open" /\ last.after = "closed" /\ last.err = Ok /\ phase = "open"
  /\ ~lockFile
  /\ Len(TreeEntries(store.index)) = 2
  /\ Cardinality(RecordStarts(store.pager, 0, Len(store.pager.log) + 1)) = 4
  /\ store.offset = Len(store.pager.log)

\* The record that a successful call of the store appends.
Appended(op, key, value) ==
  IF op = "Delete" THEN Record(RecordTypeDelete, key, <<>>)
  ELSE Record(RecordTypeInsert, key, value)

\* The calls that write a record when they succeed.
Appends ==
  /\ last'.op \in {"Put", "Add", "Update", "Delete"}
  /\ last'.err = Ok
  /\ last'.op = "Delete" => last'.deleted

\* C33: the log is append-only.  While the store is open the append offset never decreases and
\* the bytes below it never change; every record the index points to ends at or below the append
\* offset; a successful put, add, update or delete writes its one record at the append offset,
\* leaves every other byte of the log as it was and advances the offset by the size of the record;
\* Close, a stop of the process and NewStore leave the log as it is.
C33_AppendOnly ==
  [][/\ (phase = "open" /\ phase' = "open") =>
          /\ store'.offset >= store.offset
          /\ SubSeq(store'.pager.log, 1, store.offset) = SubSeq(store.pager.log, 1, store.offset)
     /\ phase' = "open" =>
          \A i \in 1..Len(TreeEntries(store'.index)) :
            LET o == TreeEntries(store'.index)[i][2]
                r == readRecord(store'.pager, o) IN
            r.err = Ok /\ o + Len(serialize(r.r)) <= store'.offset
     /\ (phase = "open" /\ phase' = "open" /\ Appends) =>
          LET bytes == serialize(Appended(last'.op, last'.key, last'.value))
              old == store.pager.log
              new == store'.pager.log IN
          /\ store'.offset = store.offset + Len(bytes)
          /\ SubSeq(new, store.offset + 1, store'.offset) = bytes
          /\ Len(new) = IF Len(old) > store'.offset THEN Len(old) ELSE store'.offset
          /\ \A i \in (store'.offset + 1)..Len(new) : new[i] = old[i]
     /\ (phase = "open" /\ phase' = "open" /\ ~Appends /\ store'.offset # store.offset) => FALSE
     /\ phase # phase' => store'.pager.log = store.pager.log]_vars

\* A put has written its record over the record that a rejected add had left at the append offset.
C33_Witness ==
  /\ last.op = "Put" /\ last.err = Ok /\ phase = "open"
  /\ Len(last.log) > last.offset
  /\ last.offset > 0
  /\ store.offset = last.offset + Len(serialize(Record(RecordTypeInsert, last.key, last.value)))

(***************************************************************************)
(* C35.  An Add that fails with ErrKeyAlreadyExists or an Update that      *)
(* fails with ErrKeyNotFound leaves no record that recovery replays: when  *)
(* the process stops right after the failed call, NewStore on the data     *)
(* directory without clean.lock succeeds and Get of the key returns what   *)
(* it returned before the failed call.                                     *)
(***************************************************************************)
Rejected ==
  \/ last.op = "Add" /\ last.err = ErrKeyAlreadyExists
  \/ last.op = "Update" /\ last.err = ErrKeyNotFound

C35_RejectedLeavesNoRecord ==
  [][Rejected /\ last'.op = "Crash" =>
       \E r \in {NewStore(store'.pager.log, store'.index.pager.file, lockFile')} :
          /\ r.err = Ok
          /\ GetView(r.s)[last.key] = last.view[last.key]]_vars

\* The page ids on the free list of the pager of ix.
FreeIds(ix) == Range(FreeSeq(ix.pager))

\* The page ids of the nodes reachable from the root of ix.
TreeIds(ix) == IF ix.root = 0 THEN {} ELSE PageIdsOf(ix.pager, ix.root, TreeDepthLimit)

(***************************************************************************)
(* C36.  No operation of the index reads a freed page as a node (such a    *)
(* read fails with ErrChecksumMismatch, the only source of that error      *)
(* while no I/O fails), no page of the free list is reachable from the     *)
(* root, and a Delete of a key that is in the tree returns without error.  *)
(***************************************************************************)
C36_NoFreedPageRead ==
  /\ last.op \in {"Insert", "Delete", "Search", "NewCursor", "Next"} =>
       last.err # ErrChecksumMismatch
  /\ FreeIds(index) \cap TreeIds(index) = {}
  /\ (last.op = "Delete" /\ last.had) => last.err = Ok

(***************************************************************************)
(* C37.  When a call on the index has returned, every page of the index    *)
(* file but the meta page is reachable from the root or on the free list:  *)
(* no page is leaked.                                                      *)
(***************************************************************************)
C37_NoPageLeaked ==
  1..(index.pager.numPages - 1) \subseteq TreeIds(index) \cup FreeIds(index)

(***************************************************************************)
(* C38.  When a call on the index has returned, the free-list head in      *)
(* bytes 4..7 of the meta page is the free-list head of the pager.         *)
(***************************************************************************)
C38_MetaFreeList ==
  Word1(PeekPage(index.pager, 0)) = index.pager.freeListID

\* The key bytes of the record that Get(key) takes its value from, NilKey
\* when Get finds none.
SourceKey(s, key) ==
  Let([f \in {Search(s.index.pager, s.index.root, hashKey(key))} |->
  IF f.err # Ok THEN NilKey ELSE
  Let([r \in {readRecord(s.pager, f.value)} |->
  IF r.err # Ok \/ r.r.RecordType = RecordTypeDelete THEN NilKey ELSE r.r.Key])])

(***************************************************************************)
(* C39.  Get(k) takes its value from a record whose key bytes are k, and   *)
(* a Put, Add, Update or Delete of a key k2 changes for no other key k1    *)
(* what Get(k1) returns nor whether Add(k1) and Update(k1) succeed, keys   *)
(* with the same 64-bit hash included.                                     *)
(***************************************************************************)
C39_KeysIndependent ==
  [][(steps' = steps + 1 /\ phase' = "open"
      /\ last'.op \in {"Put", "Add", "Update", "Delete"}) =>
       \A k1 \in StoreKeys :
         /\ GetView(store')[k1].found => SourceKey(store', k1) = k1
         /\ k1 # last'.key =>
              /\ GetView(store')[k1] = GetView(store)[k1]
              /\ \A v \in StoreValues :
                   /\ Add(store', k1, v).err = Add(store, k1, v).err
                   /\ Update(store', k1, v).err = Update(store, k1, v).err]_vars

(***************************************************************************)
(* C31.  Every read or write of the cache map, the LRU list, the free-list *)
(* head, the page count and the closed flag of the pager is made by a      *)
(* thread that holds the pager's lock.                                     *)
(***************************************************************************)
C31_AccessUnderLock ==
  last.fields # {} => last.locked

(***************************************************************************)
(* C34.  Every page of the index file holds an image that was passed to a  *)
(* WritePage that has returned: Flush and evict never write a page buffer  *)
(* that a writeNode or readNode in progress has partly rewritten.          *)
(***************************************************************************)
C34_WholeImages ==
  \A i \in 1..Len(pager.pages.file) : <<i - 1, pager.pages.file[i]>> \in ref

\* No thread is at p.mu.Lock() while it holds p.mu itself.
NoLockHeldTwice ==
  /\ ~(iter.at \in {"ReadLock", "WriteLock", "FlushLock"} /\ worker.mu = "caller")
  /\ ~(worker.at = "Lock" /\ worker.mu = "worker")

(***************************************************************************)
(* C40.  Close terminates: once it has closed the done channel the worker  *)
(* returns, also from a Flush in progress or with the ticker ready, and    *)
(* Close goes on to the final Flush, sets isClosed and returns; and no     *)
(* thread calls p.mu.Lock() while it holds p.mu.                           *)
(***************************************************************************)
C40_CloseTerminates ==
  /\ (iter.op = "Close") ~>
       (iter.op = "none" /\ pager.pages.isClosed /\ worker.at = "returned"
        /\ worker.mu = "free" /\ DirtyIds(pager.pages) = {})
  /\ []NoLockHeldTwice

\* Close was called while the worker was in its Flush, holding the lock.
C40_Witness ==
  /\ iter.op = "Close"
  /\ iter.at = "Wait"
  /\ worker.done
  /\ worker.at = "write"
  /\ worker.mu = "worker"
====
